---- MODULE Spec2Model ----
(***************************************************************************)
(* Card authorization engine: the authorization pipeline                   *)
(* (AuthorizationService.authorize), the rule engine's condition evaluator *)
(* (RuleEngineService), the card-data sanitiser (DataSecurityService) and  *)
(* the two-account fund transfer (BankingService.transferFunds) over a     *)
(* MySQL account store with row locks.                                     *)
(***************************************************************************)
EXTENDS Integers, Sequences, FiniteSets, TLC

VARIABLES
    balance,      \* account store: committed balance of every account row
    lockOwner,    \* account store: transfer holding the row's write lock, 0 if none
    xfer,         \* one record per transferFunds call: position, locals, result
    accounts,     \* account store: status, account number and sweep configuration
    ruleStore,    \* rule store: the rule rows, in the order the store returns them
    txStore,      \* transaction store: the persisted transaction rows
    auth,         \* the authorize call: position, request, locals, response
    request0,     \* the request as the caller passed it
    startBalance, \* the balances when the behaviour started
    engine,       \* a direct call of a service method: its input and its result
    history       \* transaction store: the rows that earlier calls left, newest first

(***************************************************************************)
(* Bounds of the model                                                     *)
(***************************************************************************)
MaxAmount == 2
MaxBalance == 2
MaxPriority == 2
MaxHistory == 4                     \* rows that earlier calls left in the store

(***************************************************************************)
(* Account store                                                           *)
(***************************************************************************)
AccountIds == {"a1", "a2"}
MissingId == "zz"
NoXfer == 0
XferIds == {1, 2}

PlainAccount(a) ==
    [status |-> "active", accountNumber |-> IF a = "a1" THEN "acc_1" ELSE "1002",
     isSweepEnabled |-> FALSE, sweepAccountId |-> ""]

IdleEngine == [pc |-> "idle"]      \* no direct call of a service method is under way

authVars == <<accounts, ruleStore, txStore, auth, request0, startBalance, engine, history>>
vars == <<balance, lockOwner, xfer, accounts, ruleStore, txStore, auth, request0, startBalance, engine, history>>

(***************************************************************************)
(* Values of caller-supplied data: a string of decimal digits (kept as its *)
(* digits), any other string, a nested object, or undefined.               *)
(***************************************************************************)
Str(s) == [tag |-> "s", s |-> s]
Digits(d) == [tag |-> "d", d |-> d]
Obj(f) == [tag |-> "o", f |-> f]
Absent == [tag |-> "u"]
Present(v) == v # Absent /\ v # Str("")          \* JavaScript truthiness of a field

(***************************************************************************)
(* DataSecurityService                                                     *)
(***************************************************************************)
PCI_FIELDS == {"cardNumber", "cvv", "cardholderName", "cardTrack1", "cardTrack2", "pin"}
Redacted == Str("[REDACTED]")

\* The Luhn sum of a digit sequence, from the rightmost digit, doubling every second one.
RECURSIVE LuhnSum(_, _)
LuhnSum(d, shouldDouble) ==
    IF d = <<>> THEN 0
    ELSE LET digit == d[Len(d)]
             dbl == IF 2 * digit > 9 THEN 2 * digit - 9 ELSE 2 * digit
         IN (IF shouldDouble THEN dbl ELSE digit)
            + LuhnSum(SubSeq(d, 1, Len(d) - 1), ~shouldDouble)

\* A validation that doubles from the rightmost digit on.
isValidPanDoublingFirst(v) ==
    /\ v.tag = "d"
    /\ Len(v.d) >= 13 /\ Len(v.d) <= 19
    /\ LuhnSum(v.d, TRUE) % 10 = 0

isValidPan(v) ==
    /\ v.tag = "d"
    /\ Len(v.d) >= 13 /\ Len(v.d) <= 19
    /\ LuhnSum(v.d, FALSE) % 10 = 0

\* maskPan: first 6 and last 4 digits kept, the rest replaced by '*'.
maskPan(v) ==
    [tag |-> "m", prefix |-> SubSeq(v.d, 1, 6), stars |-> Len(v.d) - 10,
     last4 |-> SubSeq(v.d, Len(v.d) - 3, Len(v.d))]

getCardLast4(v) == Digits(SubSeq(v.d, Len(v.d) - 3, Len(v.d)))

\* generateCardFingerprint: SHA-256 over BIN + last 4 + expiry month + expiry year.
generateCardFingerprint(v, expMonth, expYear) ==
    [tag |-> "h", of |-> <<SubSeq(v.d, 1, 6), SubSeq(v.d, Len(v.d) - 3, Len(v.d)),
                           expMonth, expYear>>]

\* tokenizeCardNumber returns a fresh uuid, unrelated to the digits of the PAN.
NewToken == Str("uuid-token")

RECURSIVE secureSanitizeObject(_)
secureSanitizeObject(obj) ==
    IF obj.tag # "o" THEN obj
    ELSE Obj([key \in DOMAIN obj.f |->
                IF key \in PCI_FIELDS THEN Redacted
                ELSE IF key = "cardNumber" \/ key = "pan"
                     THEN (IF isValidPan(obj.f[key]) THEN maskPan(obj.f[key]) ELSE Redacted)
                ELSE IF obj.f[key].tag = "o" THEN secureSanitizeObject(obj.f[key])
                ELSE obj.f[key]])

(***************************************************************************)
(* RuleEngineService: the condition evaluator                              *)
(***************************************************************************)
\* prepareTransactionData: enriched values win over the raw ones where both exist.
prepareTransactionData(t) ==
    [amount |-> t.amount, currency |-> t.currency,
     countryCode |-> IF t.enrichedData # Absent /\ t.enrichedData.countryCode # ""
                     THEN t.enrichedData.countryCode ELSE t.countryCode,
     paymentToken |-> t.paymentToken, paymentMethod |-> t.paymentMethod,
     cardBrand |-> t.cardBrand, cardExpiryMonth |-> t.cardExpiryMonth,
     cardExpiryYear |-> t.cardExpiryYear, cardFingerprint |-> t.cardFingerprint,
     isEnriched |-> t.enrichedData # Absent]

\* A condition value that is not a string (a number, null) where the evaluator expects
\* a string; the model writes it as a string no real value equals.
NonStringValue == "<not a string>"

\* stringMatch; the model's strings are kept in one letter case.
stringMatch(actual, expected) == actual # "" /\ actual = expected

\* stringMatch calls expected.toLowerCase() once actual is non-empty: a TypeError for
\* an expected value that is not a string.
stringMatchThrows(actual, expected) == actual # "" /\ expected = NonStringValue

evaluateConditionThrows(conditionType, conditionValue, txData) ==
    /\ conditionType = "country_code_equals"
    /\ stringMatchThrows(txData.countryCode, conditionValue)

\* evaluateCondition: the switch over the condition type; a type it does not list
\* (the card block's key "card" among them) takes the default branch.
evaluateCondition(conditionType, conditionValue, txData) ==
    CASE conditionType = "amount_greater_than" -> txData.amount > conditionValue
      [] conditionType = "amount_less_than" -> txData.amount < conditionValue
      [] conditionType = "currency_equals" -> txData.currency = conditionValue
      [] conditionType = "country_code_equals" -> stringMatch(txData.countryCode, conditionValue)
      [] OTHER -> FALSE

\* The calendar month of "new Date()" when a card block is evaluated.
CurrentYear == 2025
CurrentMonth == 6

Has(rec, key) == key \in DOMAIN rec

\* isExpired with the current month counted as expired.
ExpiryPassedOrCurrent(expiryYear, expiryMonth) ==
    \/ expiryYear < CurrentYear
    \/ (expiryYear = CurrentYear /\ expiryMonth <= CurrentMonth)

\* const isExpired = (expiryYear < currentYear) ||
\*                   (expiryYear === currentYear && expiryMonth < currentMonth)
ExpiryPassed(expiryYear, expiryMonth) ==
    \/ expiryYear < CurrentYear
    \/ (expiryYear = CurrentYear /\ expiryMonth < CurrentMonth)

\* The four sub-checks of evaluateCardRule in the order of the code; each is skipped
\* when the block does not list it or the transaction lacks the field.
CardChecks(c, txData) ==
    (IF Has(c, "brands") /\ txData.cardBrand # ""
       THEN <<txData.cardBrand \in c.brands>> ELSE <<>>)
    \o (IF Has(c, "highRiskTokens") /\ Present(txData.paymentToken)
       THEN <<txData.paymentToken \in c.highRiskTokens>> ELSE <<>>)
    \o (IF Has(c, "requireValidExpiry") /\ c.requireValidExpiry
          /\ txData.cardExpiryMonth # 0 /\ txData.cardExpiryYear # 0
       THEN <<~ExpiryPassed(txData.cardExpiryYear, txData.cardExpiryMonth)>>
       ELSE <<>>)
    \o (IF Has(c, "fingerprintFrequency") /\ Present(txData.cardFingerprint)
       THEN <<TRUE>> ELSE <<>>)

\* evaluateCardRule with every operator treated as 'or'.
CardFoldAnyMatch(checks, op, isMatch) ==
    isMatch \/ \E i \in 1..Len(checks) : checks[i]

\* The early returns of evaluateCardRule over the sub-checks, then "return isMatch".
RECURSIVE CardFold(_, _, _)
CardFold(checks, op, isMatch) ==
    IF checks = <<>> THEN isMatch
    ELSE IF op = "or" /\ Head(checks) THEN TRUE
    ELSE IF op = "and" /\ ~Head(checks) THEN FALSE
    ELSE CardFold(Tail(checks), op, isMatch \/ Head(checks))

evaluateCardRule(cardConditions, txData) ==
    CardFold(CardChecks(cardConditions, txData),
             IF Has(cardConditions, "operator") THEN cardConditions.operator ELSE "or",
             FALSE)

evaluateRule(t, rule) ==
    LET txData == prepareTransactionData(t)
        conds == rule.conditions IN
    IF DOMAIN conds = {} THEN FALSE
    ELSE IF \E k \in DOMAIN conds : ~evaluateCondition(k, conds[k], txData) THEN FALSE
    ELSE IF txData.paymentMethod = "card" /\ Has(conds, "card")
            /\ evaluateCardRule(conds.card, txData) THEN TRUE
    ELSE TRUE

\* [...rules].sort((a, b) => a.priority - b.priority): a stable sort.
RECURSIVE InsertByPriority(_, _)
InsertByPriority(sorted, r) ==
    IF sorted = <<>> THEN <<r>>
    ELSE IF Head(sorted).priority <= r.priority
         THEN <<Head(sorted)>> \o InsertByPriority(Tail(sorted), r)
         ELSE <<r>> \o sorted

RECURSIVE SortByPriority(_)
SortByPriority(rules) ==
    IF rules = <<>> THEN <<>>
    ELSE InsertByPriority(SortByPriority(SubSeq(rules, 1, Len(rules) - 1)), rules[Len(rules)])

\* evaluateRule throws when a condition it reaches throws. The loop stops at the first
\* condition that fails, in the key order of the rule; the rules of the model carry a
\* throwing condition as their first key.
evaluateRuleThrows(t, rule) ==
    \E k \in DOMAIN rule.conditions :
        evaluateConditionThrows(k, rule.conditions[k], prepareTransactionData(t))

\* One pass of the loop of evaluateRules: the result pushed in the try, or the one
\* pushed in the catch.
RuleResult(t, rule) ==
    [ruleId |-> rule.id, action |-> rule.action,
     matched |-> IF evaluateRuleThrows(t, rule) THEN FALSE ELSE evaluateRule(t, rule)]

\* evaluateRules with the sort left out: the results keep the order of the input list.
evaluateRulesUnsorted(t, rules) ==
    [i \in 1..Len(rules) |-> RuleResult(t, rules[i])]

\* evaluateRules without the try inside the loop: the batch ends at the first rule
\* whose evaluation throws.
RECURSIVE ResultsUntilThrow(_, _)
ResultsUntilThrow(t, rules) ==
    IF rules = <<>> \/ evaluateRuleThrows(t, Head(rules)) THEN <<>>
    ELSE <<RuleResult(t, Head(rules))>> \o ResultsUntilThrow(t, Tail(rules))

evaluateRulesAbortOnError(t, rules) == ResultsUntilThrow(t, SortByPriority(rules))

evaluateRules(t, rules) ==
    LET sortedRules == SortByPriority(rules) IN
    [i \in 1..Len(sortedRules) |-> RuleResult(t, sortedRules[i])]

(***************************************************************************)
(* BankingService.transferFunds                                            *)
(*   pc: idle -> connect -> lockSrc -> lockDst -> saveSrc -> saveDst ->     *)
(*       commit -> release -> done ; any step that throws goes to catch    *)
(*   result: "none" while running, then "true", "false" or "throw" (the    *)
(*   promise rejects)                                                      *)
(***************************************************************************)
IdleXfer ==
    [pc |-> "idle", from |-> MissingId, to |-> MissingId, amount |-> 0,
     srcBal |-> 0, dstBal |-> 0, writes |-> <<>>, txActive |-> FALSE,
     result |-> "none", committed |-> FALSE]

StartedXfer(f, t, amt) ==
    [IdleXfer EXCEPT !.pc = "connect", !.from = f, !.to = t, !.amount = amt]

\* The rows a transfer holds the write lock of.
HeldBy(i) == {a \in AccountIds : lockOwner[a] = i}

ReleaseLocks(i) == [a \in AccountIds |-> IF lockOwner[a] = i THEN NoXfer ELSE lockOwner[a]]

\* The value a locking read inside unit of work i sees: its own last write, else the
\* committed row.
RECURSIVE LastWrite(_, _, _)
LastWrite(ws, a, dflt) ==
    IF ws = <<>> THEN dflt
    ELSE IF ws[Len(ws)][1] = a THEN ws[Len(ws)][2]
    ELSE LastWrite(SubSeq(ws, 1, Len(ws) - 1), a, dflt)

RowSeenBy(i, a) == LastWrite(xfer[i].writes, a, balance[a])

RECURSIVE ApplyWrites(_, _)
ApplyWrites(ws, bal) ==
    IF ws = <<>> THEN bal
    ELSE ApplyWrites(Tail(ws), [bal EXCEPT ![Head(ws)[1]] = Head(ws)[2]])

\* The record of a call that leaves the try block: by exception (to the catch block) or
\* by a return (to the finally block). Its account entities are dead from there on.
ToCatch(i) == [xfer[i] EXCEPT !.pc = "catch", !.srcBal = 0, !.dstBal = 0]

ToRelease(i, res) ==
    [xfer[i] EXCEPT !.pc = "release", !.result = res, !.writes = <<>>,
                    !.txActive = FALSE, !.srcBal = 0, !.dstBal = 0]

\* queryRunner.connect() and startTransaction()
XferConnect(i) ==
    /\ xfer[i].pc = "connect"
    /\ \E ok \in BOOLEAN :
         xfer' = [xfer EXCEPT ![i].pc = IF ok THEN "lockSrc" ELSE "catch",
                              ![i].txActive = ok]
    /\ UNCHANGED <<balance, lockOwner, authVars>>

\* A rollbackTransaction() inside the try block: the early "return false" paths.
\* When the rollback itself throws, control passes to the catch block.
EarlyRollback(i, ok) ==
    IF ok
    THEN /\ xfer' = [xfer EXCEPT ![i] = ToRelease(i, "false")]
         /\ lockOwner' = ReleaseLocks(i)
    ELSE /\ xfer' = [xfer EXCEPT ![i] = ToCatch(i)]
         /\ UNCHANGED lockOwner

\* XferLockSrc with the funds check left out.
XferLockSrcNoFundsCheck(i) ==
    /\ xfer[i].pc = "lockSrc"
    /\ LET f == xfer[i].from IN
       \/ /\ f \notin AccountIds
          /\ \E ok \in BOOLEAN : EarlyRollback(i, ok)
       \/ /\ f \in AccountIds
          /\ lockOwner[f] \in {NoXfer, i}
          /\ xfer' = [xfer EXCEPT ![i].pc = "lockDst", ![i].srcBal = RowSeenBy(i, f)]
          /\ lockOwner' = [lockOwner EXCEPT ![f] = i]
       \/ /\ xfer' = [xfer EXCEPT ![i] = ToCatch(i)]
          /\ UNCHANGED lockOwner
    /\ UNCHANGED <<balance, authVars>>

\* XferLockSrc reading the source row without the write lock.
XferLockSrcUnlocked(i) ==
    /\ xfer[i].pc = "lockSrc"
    /\ LET f == xfer[i].from IN
       \/ /\ f \notin AccountIds
          /\ \E ok \in BOOLEAN : EarlyRollback(i, ok)
       \/ /\ f \in AccountIds
          /\ IF RowSeenBy(i, f) < xfer[i].amount
             THEN \E ok \in BOOLEAN : EarlyRollback(i, ok)
             ELSE /\ xfer' = [xfer EXCEPT ![i].pc = "lockDst", ![i].srcBal = RowSeenBy(i, f)]
                  /\ UNCHANGED lockOwner
       \/ /\ xfer' = [xfer EXCEPT ![i] = ToCatch(i)]
          /\ UNCHANGED lockOwner
    /\ UNCHANGED <<balance, authVars>>

\* findOne(source, pessimistic_write), the missing-source return and the funds check.
XferLockSrc(i) ==
    /\ xfer[i].pc = "lockSrc"
    /\ LET f == xfer[i].from IN
       \/ /\ f \notin AccountIds                       \* no such row: nothing to lock
          /\ \E ok \in BOOLEAN : EarlyRollback(i, ok)
       \/ /\ f \in AccountIds
          /\ lockOwner[f] \in {NoXfer, i}              \* else the read waits for the lock
          /\ IF RowSeenBy(i, f) < xfer[i].amount
             THEN \E ok \in BOOLEAN :
                    IF ok
                    THEN /\ xfer' = [xfer EXCEPT ![i] = ToRelease(i, "false")]
                         /\ lockOwner' = ReleaseLocks(i)
                    ELSE /\ xfer' = [xfer EXCEPT ![i] = ToCatch(i)]
                         /\ lockOwner' = [lockOwner EXCEPT ![f] = i]
             ELSE /\ xfer' = [xfer EXCEPT ![i].pc = "lockDst", ![i].srcBal = RowSeenBy(i, f)]
                  /\ lockOwner' = [lockOwner EXCEPT ![f] = i]
       \/ /\ xfer' = [xfer EXCEPT ![i] = ToCatch(i)]   \* the query throws (also a lock-wait timeout)
          /\ UNCHANGED lockOwner
    /\ UNCHANGED <<balance, authVars>>

\* findOne(destination, pessimistic_write) and the missing-destination return.
XferLockDst(i) ==
    /\ xfer[i].pc = "lockDst"
    /\ LET t == xfer[i].to IN
       \/ /\ t \notin AccountIds
          /\ \E ok \in BOOLEAN : EarlyRollback(i, ok)
       \/ /\ t \in AccountIds
          /\ lockOwner[t] \in {NoXfer, i}
          /\ xfer' = [xfer EXCEPT ![i].pc = "saveSrc", ![i].dstBal = RowSeenBy(i, t)]
          /\ lockOwner' = [lockOwner EXCEPT ![t] = i]
       \/ /\ xfer' = [xfer EXCEPT ![i] = ToCatch(i)]   \* the query throws (deadlock victim, timeout)
          /\ UNCHANGED lockOwner
    /\ UNCHANGED <<balance, authVars>>

\* sourceAccount.balance -= amount; destAccount.balance += amount; save(sourceAccount)
XferSaveSrc(i) ==
    /\ xfer[i].pc = "saveSrc"
    /\ LET s == xfer[i].srcBal - xfer[i].amount
           d == xfer[i].dstBal + xfer[i].amount IN
       \E ok \in BOOLEAN :
         xfer' = [xfer EXCEPT ![i] =
                    IF ok THEN [@ EXCEPT !.pc = "saveDst", !.srcBal = s, !.dstBal = d,
                                         !.writes = Append(@, <<xfer[i].from, s>>)]
                    ELSE ToCatch(i)]
    /\ UNCHANGED <<balance, lockOwner, authVars>>

\* save(destAccount)
XferSaveDst(i) ==
    /\ xfer[i].pc = "saveDst"
    /\ \E ok \in BOOLEAN :
         xfer' = [xfer EXCEPT ![i] =
                    IF ok THEN [@ EXCEPT !.pc = "commit",
                                         !.writes = Append(@, <<xfer[i].to, xfer[i].dstBal>>)]
                    ELSE ToCatch(i)]
    /\ UNCHANGED <<balance, lockOwner, authVars>>

\* commitTransaction(): the unit of work's writes become the committed rows at once.
XferCommit(i) ==
    /\ xfer[i].pc = "commit"
    /\ \/ /\ balance' = ApplyWrites(xfer[i].writes, balance)
          /\ lockOwner' = ReleaseLocks(i)
          /\ xfer' = [xfer EXCEPT ![i] = [ToRelease(i, "true") EXCEPT !.committed = TRUE]]
       \/ /\ xfer' = [xfer EXCEPT ![i] = ToCatch(i)]
          /\ UNCHANGED <<balance, lockOwner>>
    /\ UNCHANGED authVars

\* catch: rollback when a transaction is active, return false; a rollback that throws
\* leaves the catch block by exception.
XferCatch(i) ==
    /\ xfer[i].pc = "catch"
    /\ IF xfer[i].txActive
       THEN \/ /\ xfer' = [xfer EXCEPT ![i] = ToRelease(i, "false")]
               /\ lockOwner' = ReleaseLocks(i)
            \/ /\ xfer' = [xfer EXCEPT ![i].pc = "release", ![i].result = "throw"]
               /\ UNCHANGED lockOwner
       ELSE /\ xfer' = [xfer EXCEPT ![i].pc = "release", ![i].result = "false"]
            /\ UNCHANGED lockOwner
    /\ UNCHANGED <<balance, authVars>>

\* finally: queryRunner.release(); the connection goes back to the pool, and a unit of
\* work still open on it is discarded. A release that throws rejects the call.
XferRelease(i) ==
    /\ xfer[i].pc = "release"
    /\ \E ok \in BOOLEAN :
         xfer' = [xfer EXCEPT ![i].pc = "done", ![i].writes = <<>>, ![i].txActive = FALSE,
                              ![i].result = IF ok THEN @ ELSE "throw"]
    /\ lockOwner' = ReleaseLocks(i)
    /\ UNCHANGED <<balance, authVars>>

XferStep(i) ==
    \/ XferConnect(i)
    \/ XferLockSrc(i)
    \/ XferLockDst(i)
    \/ XferSaveSrc(i)
    \/ XferSaveDst(i)
    \/ XferCommit(i)
    \/ XferCatch(i)
    \/ XferRelease(i)


(***************************************************************************)
(* AuthorizationService                                                    *)
(*   pc: validate -> create -> load -> enrich -> evaluate -> decide ->      *)
(*       (sweep ->) done ; an exception inside the outer try goes to catch *)
(***************************************************************************)
SweepXfer == 1                      \* the transferFunds call a sweep starts

IsUuid(s) == s \in AccountIds \cup {MissingId}      \* the strings of canonical UUID form

FindById(id) == IF id \in AccountIds THEN id ELSE ""

FindByAccountNumber(n) ==
    IF \E a \in AccountIds : accounts[a].accountNumber = n
    THEN CHOOSE a \in AccountIds : accounts[a].accountNumber = n
    ELSE ""

\* A resolution that tries the account number when the id lookup finds nothing.
ResolveAccountIdWithFallback(accountId) ==
    IF IsUuid(accountId) /\ FindById(accountId) # "" THEN FindById(accountId)
    ELSE FindByAccountNumber(accountId)

\* validateAccountId without its catch: the id of the account the identifier names.
ResolveAccountId(accountId) ==
    IF IsUuid(accountId) THEN FindById(accountId)
    ELSE FindByAccountNumber(accountId)

NoResponse == [decision |-> "", reasonCode |-> ""]

NoTransaction ==
    [rowId |-> 0, transactionId |-> "", accountId |-> "", amount |-> 0, currency |-> "",
     countryCode |-> "", paymentMethod |-> "", paymentToken |-> Absent, cardBrand |-> "",
     cardLast4 |-> Absent, cardExpiryMonth |-> 0, cardExpiryYear |-> 0,
     cardFingerprint |-> Absent, metadata |-> Absent, enrichedData |-> Absent,
     status |-> "", declineReason |-> "", appliedRules |-> <<>>]

IdleAuth ==
    [pc |-> "idle", req |-> [accountId |-> ""], txn |-> NoTransaction,
     account |-> [id |-> ""], appliedRules |-> <<>>, response |-> NoResponse,
     faults |-> {}, sweepResult |-> "none", accountGone |-> FALSE]

\* transactionRepository.save: an entity without a row id is inserted, else its row
\* is overwritten.
SavedEntity(t) == IF t.rowId = 0 THEN [t EXCEPT !.rowId = Len(txStore) + 1] ELSE t

SaveRow(t) ==
    IF t.rowId = 0 THEN Append(txStore, SavedEntity(t))
    ELSE [txStore EXCEPT ![t.rowId] = t]

\* Control passes to the catch block of authorize; "site" names the call that threw.
AuthThrow(site) ==
    /\ auth' = [auth EXCEPT !.pc = "catch", !.faults = @ \cup {site}]
    /\ UNCHANGED txStore

\* createErrorResponse
createErrorResponse(reasonCode) == [decision |-> "decline", reasonCode |-> reasonCode]

\* declineTransaction: status, reason and the rule id in the metadata, then the save.
DeclinedEntity(t, reasonCode, ruleId) ==
    [t EXCEPT !.status = "declined", !.declineReason = reasonCode,
              !.metadata = IF ruleId = "" THEN @
                           ELSE Obj([k \in (IF @.tag = "o" THEN DOMAIN @.f ELSE {})
                                            \cup {"declineRuleId"} |->
                                       IF k = "declineRuleId" THEN Str(ruleId) ELSE @.f[k]])]

\* declineTransaction with the rule id dropped: the metadata is left as it was.
declineTransactionNoRuleId(a, reasonCode, ruleId, saveOk) ==
    LET t == DeclinedEntity(a.txn, reasonCode, "") IN
    IF saveOk
    THEN /\ txStore' = SaveRow(t)
         /\ auth' = [a EXCEPT !.pc = "done", !.txn = t,
                              !.response = [decision |-> "decline",
                                            reasonCode |-> reasonCode]]
    ELSE /\ auth' = [a EXCEPT !.pc = "catch", !.faults = @ \cup {"save"}, !.txn = t]
         /\ UNCHANGED txStore

\* "a" is the call's record as the method is entered; the save may throw.
declineTransaction(a, reasonCode, ruleId, saveOk) ==
    LET t == DeclinedEntity(a.txn, reasonCode, ruleId) IN
    IF saveOk
    THEN /\ txStore' = SaveRow(t)
         /\ auth' = [a EXCEPT !.pc = "done", !.txn = t,
                              !.response = [decision |-> "decline",
                                            reasonCode |-> reasonCode]]
    ELSE /\ auth' = [a EXCEPT !.pc = "catch", !.faults = @ \cup {"save"}, !.txn = t]
         /\ UNCHANGED txStore

\* approveTransaction answering approve whether or not the save came back.
approveTransactionUnsaved(a, saveOk) ==
    LET t == [a.txn EXCEPT !.status = "approved"] IN
    /\ txStore' = IF saveOk THEN SaveRow(t) ELSE txStore
    /\ auth' = [a EXCEPT !.pc = "done", !.txn = t,
                         !.faults = IF saveOk THEN @ ELSE @ \cup {"save"},
                         !.response = [decision |-> "approve", reasonCode |-> ""]]

approveTransaction(a, saveOk) ==
    LET t == [a.txn EXCEPT !.status = "approved"] IN
    IF saveOk
    THEN /\ txStore' = SaveRow(t)
         /\ auth' = [a EXCEPT !.pc = "done", !.txn = t,
                              !.response = [decision |-> "approve", reasonCode |-> ""]]
    ELSE /\ auth' = [a EXCEPT !.pc = "catch", !.faults = @ \cup {"save"}, !.txn = t]
         /\ UNCHANGED txStore

\* validateAccountId (with its own catch) and the account_not_found return.
AuthValidate ==
    /\ auth.pc = "validate"
    /\ \E ok \in BOOLEAN :
         LET accountId == IF ok THEN ResolveAccountId(auth.req.accountId) ELSE "" IN
         IF accountId = ""
         THEN auth' = [auth EXCEPT !.pc = "done",
                                   !.response = createErrorResponse("account_not_found"),
                                   !.faults = IF ok THEN @ ELSE @ \cup {"resolve"}]
         ELSE auth' = [auth EXCEPT !.pc = "create", !.req.accountId = accountId]
    /\ UNCHANGED <<balance, lockOwner, xfer, accounts, ruleStore, txStore, request0,
                   startBalance, engine, history>>

\* createTransaction, the request as it leaves the card-data block. Tokenization
\* happens only for a card request carrying a card number and no token.
NeedsTokenization(r) ==
    r.paymentMethod = "card" /\ Present(r.cardNumber) /\ ~Present(r.paymentToken)

\* A tokenization that derives the last 4 digits and the fingerprint from the card
\* number whatever the request supplied.
TokenizedRequestDerivingAll(r) ==
    IF r.paymentMethod # "card" THEN r
    ELSE LET t == IF NeedsTokenization(r)
                  THEN [r EXCEPT !.paymentToken = NewToken,
                                 !.cardLast4 = getCardLast4(r.cardNumber),
                                 !.cardFingerprint =
                                     generateCardFingerprint(r.cardNumber,
                                         r.cardExpiryMonth, r.cardExpiryYear)]
                  ELSE r
         IN [t EXCEPT !.cardNumber = Absent, !.cvv = Absent]

TokenizedRequest(r) ==
    IF r.paymentMethod # "card" THEN r
    ELSE LET t == IF NeedsTokenization(r)
                  THEN [r EXCEPT !.paymentToken = NewToken,
                                 !.cardLast4 = IF Present(@) THEN @
                                               ELSE getCardLast4(r.cardNumber),
                                 !.cardFingerprint =
                                     IF ~Present(@) /\ r.cardExpiryMonth # 0
                                        /\ r.cardExpiryYear # 0
                                     THEN generateCardFingerprint(r.cardNumber,
                                              r.cardExpiryMonth, r.cardExpiryYear)
                                     ELSE @]
                  ELSE r
         IN [t EXCEPT !.cardNumber = Absent, !.cvv = Absent]

\* createTransaction, the entity built from the request.
PendingEntity(r) ==
    [NoTransaction EXCEPT
       !.transactionId = r.transactionId, !.accountId = r.accountId,
       !.amount = r.amount, !.currency = r.currency, !.countryCode = r.countryCode,
       !.paymentMethod = r.paymentMethod,
       !.paymentToken = IF Present(r.paymentToken) THEN r.paymentToken ELSE Absent,
       !.cardBrand = r.cardBrand,
       !.cardLast4 = IF Present(r.cardLast4) THEN r.cardLast4 ELSE Absent,
       !.cardExpiryMonth = r.cardExpiryMonth, !.cardExpiryYear = r.cardExpiryYear,
       !.cardFingerprint = IF Present(r.cardFingerprint) THEN r.cardFingerprint ELSE Absent,
       !.metadata = IF Present(r.metadata) THEN secureSanitizeObject(r.metadata) ELSE Absent,
       !.status = "pending"]

AuthCreate ==
    /\ auth.pc = "create"
    /\ LET r == auth.req IN
       \/ \* tokenizeCardNumber throws: an invalid PAN, or the cipher fails
          /\ NeedsTokenization(r)
          /\ AuthThrow("tokenize")
       \/ /\ NeedsTokenization(r) => isValidPan(r.cardNumber)
          /\ \E saveOk \in BOOLEAN :
               LET t == PendingEntity(TokenizedRequest(r)) IN
               IF saveOk
               THEN /\ txStore' = SaveRow(t)
                    /\ auth' = [auth EXCEPT !.pc = "load", !.req = TokenizedRequest(r),
                                            !.txn = SavedEntity(t)]
               ELSE /\ auth' = [auth EXCEPT !.pc = "catch", !.req = TokenizedRequest(r),
                                            !.faults = @ \cup {"create"}]
                    /\ UNCHANGED txStore
    /\ UNCHANGED <<balance, lockOwner, xfer, accounts, ruleStore, request0, startBalance, engine, history>>

\* accountRepository.findOne with the account's rules, and the account gate.
LoadedAccount(id) ==
    [id |-> id, balance |-> balance[id], status |-> accounts[id].status,
     isSweepEnabled |-> accounts[id].isSweepEnabled,
     sweepAccountId |-> accounts[id].sweepAccountId,
     rules |-> SelectSeq(ruleStore, LAMBDA r : r.accountId = id)]

\* An account load that does not look at the status of the account.
AuthLoadNoStatusCheck ==
    /\ auth.pc = "load"
    /\ \/ AuthThrow("load")
       \/ \E gone \in BOOLEAN :
          LET id == IF gone THEN "" ELSE FindById(auth.req.accountId) IN
          IF id = ""
          THEN \E saveOk \in BOOLEAN :
                 declineTransaction([auth EXCEPT !.accountGone = TRUE],
                                    "account_not_found", "", saveOk)
          ELSE /\ auth' = [auth EXCEPT !.pc = "enrich", !.account = LoadedAccount(id)]
               /\ UNCHANGED txStore
    /\ UNCHANGED <<balance, lockOwner, xfer, accounts, ruleStore, request0, startBalance, engine, history>>

\* "gone": the row was deleted after validateAccountId found it, and findOne returns
\* null.
AuthLoad ==
    /\ auth.pc = "load"
    /\ \/ AuthThrow("load")
       \/ \E gone \in BOOLEAN :
          LET id == IF gone THEN "" ELSE FindById(auth.req.accountId) IN
          IF id = ""
          THEN \E saveOk \in BOOLEAN :
                 declineTransaction([auth EXCEPT !.accountGone = TRUE],
                                    "account_not_found", "", saveOk)
          ELSE IF accounts[id].status # "active"
          THEN \E saveOk \in BOOLEAN :
                 declineTransaction(auth, "account_inactive", "", saveOk)
          ELSE /\ auth' = [auth EXCEPT !.pc = "enrich", !.account = LoadedAccount(id)]
               /\ UNCHANGED txStore
    /\ UNCHANGED <<balance, lockOwner, xfer, accounts, ruleStore, request0, startBalance, engine, history>>

\* enrichTransactionData: the country code falls back to 'US'.
EnrichedData(t) ==
    [tag |-> "e", countryCode |-> IF t.countryCode # "" THEN t.countryCode ELSE "US"]

\* The race of the enrichment call against its timer, and the save of the enriched
\* entity; an exception of either is logged and the call goes on.
\* AuthEnrich without the try around the race: a rejection of the provider leaves
\* through the catch block of authorize.
AuthEnrichUnguarded ==
    /\ auth.pc = "enrich"
    /\ \/ /\ auth' = [auth EXCEPT !.pc = "catch"]
          /\ UNCHANGED txStore
       \/ LET t == [auth.txn EXCEPT !.enrichedData = EnrichedData(auth.txn)] IN
          /\ txStore' = SaveRow(t)
          /\ auth' = [auth EXCEPT !.pc = "evaluate", !.txn = t]
    /\ UNCHANGED <<balance, lockOwner, xfer, accounts, ruleStore, request0, startBalance, engine, history>>

AuthEnrich ==
    /\ auth.pc = "enrich"
    /\ \/ \* the timer wins, or the provider rejects
          /\ auth' = [auth EXCEPT !.pc = "evaluate"]
          /\ UNCHANGED txStore
       \/ \* the provider answers in time
          LET t == [auth.txn EXCEPT !.enrichedData = EnrichedData(auth.txn)] IN
          \/ /\ txStore' = SaveRow(t)
             /\ auth' = [auth EXCEPT !.pc = "evaluate", !.txn = t]
          \/ /\ auth' = [auth EXCEPT !.pc = "evaluate", !.txn = t,
                                     !.faults = @ \cup {"enrichSave"}]
             /\ UNCHANGED txStore
    /\ UNCHANGED <<balance, lockOwner, xfer, accounts, ruleStore, request0, startBalance, engine, history>>

\* ruleRepository.find({isGlobal, isActive}, order by priority)
GlobalRules == SortByPriority(SelectSeq(ruleStore, LAMBDA r : r.isGlobal /\ r.isActive))

\* A rule list that keeps the inactive rules of the account.
LoadedRulesUnfiltered(account) == account.rules \o GlobalRules

\* [...accountRules, ...globalRules].filter(rule => rule.isActive)
LoadedRules(account) == SelectSeq(account.rules \o GlobalRules, LAMBDA r : r.isActive)

\* The six anomaly checks of evaluateBehavioralPatterns in the order they are called,
\* by the rule id of the result they push (the velocity check under its card id).
BehavioralRuleIds ==
    <<"behavioral_new_card", "behavioral_amount_anomaly",
      "behavioral_new_merchant_category", "behavioral_unusual_country",
      "behavioral_unusual_time", "velocity_card">>

CheckResult(i) == [ruleId |-> BehavioralRuleIds[i], action |-> "review", matched |-> TRUE]

\* The result a check pushes: the velocity check pushes velocity_card when its card
\* count fires ("hit") and velocity_account when its account count fires.
ResultOf(i, outcome) ==
    IF outcome = "hitAccount" THEN [CheckResult(i) EXCEPT !.ruleId = "velocity_account"]
    ELSE CheckResult(i)

\* What a check does: it returns null ("none"), returns a result ("hit") or throws.
\* The checks that can throw are the location check (usualCountries that parses to
\* null or to a non-array) and the velocity check (its store counts).
CheckOutcomes ==
    {o \in [1..Len(BehavioralRuleIds) -> {"none", "hit", "hitAccount", "throw"}] :
        \A i \in DOMAIN o : /\ (o[i] = "throw" => i \in {4, 6})
                             /\ (o[i] = "hitAccount" => i = 6)}

\* The body of the try: the checks from the i-th on, "results" being the list so far.
\* A check that throws ends the try; the catch returns [].
RECURSIVE ChecksFrom(_, _, _)
ChecksFrom(i, outcomes, results) ==
    IF i > Len(BehavioralRuleIds) THEN results
    ELSE IF outcomes[i] = "throw" THEN <<>>
    ELSE ChecksFrom(i + 1, outcomes,
                    IF outcomes[i] = "none" THEN results
                    ELSE Append(results, ResultOf(i, outcomes[i])))

\* evaluateBehavioralPatterns: historyOk is whether the history query returned.
evaluateBehavioralPatterns(historyOk, outcomes) ==
    IF historyOk THEN ChecksFrom(1, outcomes, <<>>) ELSE <<>>

(***************************************************************************)
(* The anomaly checks over the transaction store. A stored row is seen by  *)
(* the checks as <<account, amount, country, method, token, fingerprint,   *)
(* age in minutes, hour of day>>.                                          *)
(***************************************************************************)
CurrentHour == 12
HistoryLimit == 50                  \* getAccountTransactionHistory: take
CardVelocityWindow == 30            \* minutes
CardVelocityThreshold == 3
AccountVelocityWindow == 60         \* minutes
AccountVelocityThreshold == 5

\* A row of this call as the store returns it: created a moment ago.
AsStored(t) ==
    [accountId |-> t.accountId, amount |-> t.amount, countryCode |-> t.countryCode,
     paymentMethod |-> t.paymentMethod, paymentToken |-> t.paymentToken,
     cardFingerprint |-> t.cardFingerprint, age |-> 0, hour |-> CurrentHour]

\* Every row of the transaction store, newest first: the rows this call saved, then
\* the rows of earlier calls.
TransactionRows == [i \in 1..Len(txStore) |-> AsStored(txStore[Len(txStore) + 1 - i])] \o history

\* txRepo.find({where: {accountId}, order: {createdAt: 'DESC'}, take: limit})
getAccountTransactionHistory(accountId) ==
    LET rows == SelectSeq(TransactionRows, LAMBDA r : r.accountId = accountId) IN
    IF Len(rows) > HistoryLimit THEN SubSeq(rows, 1, HistoryLimit) ELSE rows

Some(h, Test(_)) == \E i \in 1..Len(h) : Test(h[i])
Count(h, Test(_)) == Cardinality({i \in 1..Len(h) : Test(h[i])})

\* amounts.reduce((sum, amount) => sum + amount, 0)
RECURSIVE Sum(_)
Sum(amounts) == IF amounts = <<>> THEN 0 ELSE Head(amounts) + Sum(Tail(amounts))

detectNewPaymentMethod(t, h) ==
    IF ~Present(t.paymentToken) /\ ~Present(t.cardFingerprint) THEN "none"
    ELSE LET isNewCard ==
                 ~Some(h, LAMBDA tx :
                         \/ Present(t.cardFingerprint)
                            /\ tx.cardFingerprint = t.cardFingerprint
                         \/ Present(t.paymentToken) /\ tx.paymentToken = t.paymentToken)
             hasCardHistory == Some(h, LAMBDA tx : tx.paymentMethod = "card")
         IN IF isNewCard /\ hasCardHistory THEN "hit" ELSE "none"

\* A z-score test that divides by a standard deviation of 0.
ZScoreAbove3NoGuard(amount, n, s, q, tieAbove) ==
    LET dev == n * amount - s
        var == n * q - s * s
    IN dev > 0 /\ dev * dev > 9 * var

\* zScore > 3 for zScore = (amount - average) / (stdDev || 1), in whole numbers: with
\* n amounts of sum s and sum of squares q, average = s/n and stdDev^2 = (n*q - s*s)/n^2.
\* The code computes in doubles: an amount at exactly 3 standard deviations comes out
\* above 3 or not as the rounding of the square root falls (tieAbove); a standard
\* deviation of 0 is computed exactly.
ZScoreAbove3(amount, n, s, q, tieAbove) ==
    LET dev == n * amount - s               \* n * (amount - average)
        var == n * q - s * s                \* n^2 * stdDev^2
    IN IF var = 0 THEN dev > 3 * n
       ELSE dev > 0 /\ (dev * dev > 9 * var \/ (dev * dev = 9 * var /\ tieAbove))

detectAmountAnomaly(t, h, tieAbove) ==
    IF Len(h) < 3 THEN "none"
    ELSE LET amounts == [i \in 1..Len(h) |-> h[i].amount]
             squares == [i \in 1..Len(h) |-> h[i].amount * h[i].amount]
         IN IF ZScoreAbove3(t.amount, Len(h), Sum(amounts), Sum(squares), tieAbove)
            THEN "hit" ELSE "none"

\* detectMerchantCategoryAnomaly returns null at its first line for a transaction
\* without a merchant category code; the requests of the model carry none.
detectMerchantCategoryAnomaly(t, h) == "none"

\* detectLocationAnomaly for an account without usualCountries in its metadata: the
\* usual countries are those of at least max(1, ceil(10%)) rows of the history.
detectLocationAnomaly(t, h) ==
    IF t.countryCode = "" THEN "none"
    ELSE LET minCount == IF (Len(h) + 9) \div 10 > 1 THEN (Len(h) + 9) \div 10 ELSE 1
             usualCountries ==
                 {h[i].countryCode : i \in {j \in 1..Len(h) :
                     /\ h[j].countryCode # ""
                     /\ Count(h, LAMBDA tx : tx.countryCode = h[j].countryCode) >= minCount}}
         IN IF usualCountries # {} /\ t.countryCode \notin usualCountries
            THEN "hit" ELSE "none"

\* detectTimePatternAnomaly: the hour of the transaction holds less than 5% of the rows.
detectTimePatternAnomaly(t, h) ==
    IF Len(h) < 10 THEN "none"
    ELSE IF Count(h, LAMBDA tx : tx.hour = CurrentHour) * 100 < 5 * Len(h)
         THEN "hit" ELSE "none"

\* A velocity check without its card count.
detectVelocityAnomalyAccountOnly(t, countOk) ==
    IF ~countOk THEN "throw"
    ELSE IF Count(TransactionRows, LAMBDA tx : /\ tx.accountId = t.accountId
                                               /\ tx.age < AccountVelocityWindow)
            >= AccountVelocityThreshold THEN "hitAccount"
    ELSE "none"

\* detectVelocityAnomaly: its two counts run over the whole store, the card count
\* whatever the account; countOk is whether txRepo.count returned.
detectVelocityAnomaly(t, countOk) ==
    LET cardTxCount ==
            Count(TransactionRows, LAMBDA tx : /\ tx.cardFingerprint = t.cardFingerprint
                                               /\ tx.age < CardVelocityWindow)
        accountTxCount ==
            Count(TransactionRows, LAMBDA tx : /\ tx.accountId = t.accountId
                                               /\ tx.age < AccountVelocityWindow)
    IN IF ~countOk THEN "throw"
       ELSE IF Present(t.cardFingerprint) /\ cardTxCount >= CardVelocityThreshold
            THEN "hit"
       ELSE IF accountTxCount >= AccountVelocityThreshold THEN "hitAccount"
       ELSE "none"

\* What the six checks do for the transaction of the call, in call order.
DetectOutcomes(t, account, countOk, tieAbove) ==
    LET txHistory == getAccountTransactionHistory(account.id) IN
    <<detectNewPaymentMethod(t, txHistory), detectAmountAnomaly(t, txHistory, tieAbove),
      detectMerchantCategoryAnomaly(t, txHistory), detectLocationAnomaly(t, txHistory),
      detectTimePatternAnomaly(t, txHistory), detectVelocityAnomaly(t, countOk)>>

\* Rule loading, evaluateRules, evaluateBehavioralPatterns and the merge.
AuthEvaluate ==
    /\ auth.pc = "evaluate"
    /\ \/ AuthThrow("rules")                  \* ruleRepository.find throws
       \/ AuthThrow("engine")                 \* the rule engine or the detector rejects
       \/ /\ \E historyOk \in BOOLEAN, countOk \in BOOLEAN, tieAbove \in BOOLEAN :
               LET ruleResults == evaluateRules(auth.txn, LoadedRules(auth.account))
                   behavioralResults ==
                       evaluateBehavioralPatterns(historyOk,
                           DetectOutcomes(auth.txn, auth.account, countOk, tieAbove))
               IN /\ historyOk \/ countOk      \* no count is made without a history
                  /\ auth' = [auth EXCEPT
                        !.pc = "decide",
                        !.appliedRules = ruleResults \o behavioralResults,
                        !.txn.appliedRules = ruleResults \o behavioralResults,
                        !.faults = @ \cup (IF historyOk THEN {} ELSE {"history"})
                                     \cup (IF countOk THEN {} ELSE {"count"})]
          /\ UNCHANGED txStore
    /\ UNCHANGED <<balance, lockOwner, xfer, accounts, ruleStore, request0, startBalance, engine, history>>

\* request.metadata?.additionalAuthProvided
AdditionalAuthProvided(r) ==
    /\ r.metadata.tag = "o"
    /\ Has(r.metadata.f, "additionalAuthProvided")
    /\ Present(r.metadata.f.additionalAuthProvided)

Matched(applied, action) == SelectSeq(applied, LAMBDA x : x.action = action /\ x.matched)

\* Decide with the decline rules looked at before the step-up rules.
DecideDeclineFirst(applied, r, account) ==
    LET declineRules == Matched(applied, "decline")
        stepUpAuthRules == Matched(applied, "step_up_auth")
        sweepRules == Matched(applied, "sweep") IN
    IF declineRules # <<>>
    THEN [kind |-> "decline", reasonCode |-> "rule_" \o declineRules[1].ruleId,
          ruleId |-> ""]
    ELSE IF stepUpAuthRules # <<>> /\ ~AdditionalAuthProvided(r)
    THEN [kind |-> "decline", reasonCode |-> "additional_auth_required",
          ruleId |-> stepUpAuthRules[1].ruleId]
    ELSE IF sweepRules # <<>> /\ account.balance < r.amount
            /\ account.isSweepEnabled /\ account.sweepAccountId # ""
    THEN [kind |-> "sweep", reasonCode |-> "", ruleId |-> ""]
    ELSE [kind |-> "funds", reasonCode |-> "", ruleId |-> ""]

\* Decide with a matched review result treated as a decline.
DecideOnReview(applied, r, account) ==
    LET declineRules == SelectSeq(applied, LAMBDA x : x.action \in {"decline", "review"}
                                                      /\ x.matched)
        stepUpAuthRules == Matched(applied, "step_up_auth")
        sweepRules == Matched(applied, "sweep") IN
    IF stepUpAuthRules # <<>> /\ ~AdditionalAuthProvided(r)
    THEN [kind |-> "decline", reasonCode |-> "additional_auth_required",
          ruleId |-> stepUpAuthRules[1].ruleId]
    ELSE IF declineRules # <<>>
    THEN [kind |-> "decline", reasonCode |-> "rule_" \o declineRules[1].ruleId,
          ruleId |-> ""]
    ELSE IF sweepRules # <<>> /\ account.balance < r.amount
            /\ account.isSweepEnabled /\ account.sweepAccountId # ""
    THEN [kind |-> "sweep", reasonCode |-> "", ruleId |-> ""]
    ELSE [kind |-> "funds", reasonCode |-> "", ruleId |-> ""]

\* The branch authorize takes on the merged results: which decline, a sweep attempt,
\* or the final funds check.
Decide(applied, r, account) ==
    LET declineRules == Matched(applied, "decline")
        stepUpAuthRules == Matched(applied, "step_up_auth")
        sweepRules == Matched(applied, "sweep") IN
    IF stepUpAuthRules # <<>> /\ ~AdditionalAuthProvided(r)
    THEN [kind |-> "decline", reasonCode |-> "additional_auth_required",
          ruleId |-> stepUpAuthRules[1].ruleId]
    ELSE IF declineRules # <<>>
    THEN [kind |-> "decline", reasonCode |-> "rule_" \o declineRules[1].ruleId,
          ruleId |-> ""]
    ELSE IF sweepRules # <<>> /\ account.balance < r.amount
            /\ account.isSweepEnabled /\ account.sweepAccountId # ""
    THEN [kind |-> "sweep", reasonCode |-> "", ruleId |-> ""]
    ELSE [kind |-> "funds", reasonCode |-> "", ruleId |-> ""]

\* The last two branches: insufficient_funds on the balance loaded with the account,
\* else approve.
FundsCheck(a, saveOk) ==
    IF a.account.balance < a.req.amount
    THEN declineTransaction(a, "insufficient_funds", "", saveOk)
    ELSE approveTransaction(a, saveOk)

\* A decision step that debits the account when it approves.
AuthDecideDebiting ==
    /\ auth.pc = "decide"
    /\ LET d == Decide(auth.appliedRules, auth.req, auth.account) IN
       /\ CASE d.kind = "decline" ->
                /\ \E saveOk \in BOOLEAN :
                     declineTransaction(auth, d.reasonCode, d.ruleId, saveOk)
                /\ UNCHANGED xfer
           [] d.kind = "sweep" ->
                /\ auth' = [auth EXCEPT !.pc = "sweep"]
                /\ xfer' = [xfer EXCEPT ![SweepXfer] =
                              StartedXfer(auth.account.sweepAccountId, auth.account.id,
                                          auth.req.amount)]
                /\ UNCHANGED txStore
           [] OTHER ->
                /\ \E saveOk \in BOOLEAN : FundsCheck(auth, saveOk)
                /\ UNCHANGED xfer
       /\ balance' = IF d.kind \notin {"decline", "sweep"}
                        /\ auth.account.balance >= auth.req.amount
                     THEN [balance EXCEPT ![auth.account.id] = @ - auth.req.amount]
                     ELSE balance
    /\ UNCHANGED <<lockOwner, accounts, ruleStore, request0, startBalance, engine, history>>

AuthDecide ==
    /\ auth.pc = "decide"
    /\ LET d == Decide(auth.appliedRules, auth.req, auth.account) IN
       CASE d.kind = "decline" ->
              /\ \E saveOk \in BOOLEAN :
                   declineTransaction(auth, d.reasonCode, d.ruleId, saveOk)
              /\ UNCHANGED xfer
         [] d.kind = "sweep" ->
              /\ auth' = [auth EXCEPT !.pc = "sweep"]
              /\ xfer' = [xfer EXCEPT ![SweepXfer] =
                            StartedXfer(auth.account.sweepAccountId, auth.account.id,
                                        auth.req.amount)]
              /\ UNCHANGED txStore
         [] OTHER ->
              /\ \E saveOk \in BOOLEAN : FundsCheck(auth, saveOk)
              /\ UNCHANGED xfer
    /\ UNCHANGED <<balance, lockOwner, accounts, ruleStore, request0, startBalance, engine, history>>

\* The race of transferFunds against the banking timer, the balance re-read after a
\* successful sweep, and the branches that follow. An exception of the transfer or of
\* the re-read is logged and the funds check follows.
\* AuthSweep without the try around the race: a transfer that rejects leaves through
\* the catch block of authorize.
AuthSweepUnguarded ==
    /\ auth.pc = "sweep"
    /\ LET x == xfer[SweepXfer] IN
       \/ /\ x.pc = "done" /\ x.result = "true"
          /\ LET a == [auth EXCEPT !.sweepResult = "true"] IN
             \E saveOk \in BOOLEAN :
               IF balance[auth.account.id] >= auth.req.amount
               THEN approveTransaction(a, saveOk) ELSE FundsCheck(a, saveOk)
       \/ /\ x.pc = "done" /\ x.result = "false"
          /\ \E saveOk \in BOOLEAN :
               FundsCheck([auth EXCEPT !.sweepResult = "false"], saveOk)
       \/ /\ x.pc = "done" /\ x.result = "throw"
          /\ auth' = [auth EXCEPT !.pc = "catch", !.sweepResult = "throw"]
          /\ UNCHANGED txStore
       \/ /\ x.pc # "done"
          /\ \E saveOk \in BOOLEAN :
               FundsCheck([auth EXCEPT !.sweepResult = "timeout"], saveOk)
    /\ UNCHANGED <<balance, lockOwner, xfer, accounts, ruleStore, request0, startBalance, engine, history>>

\* AuthSweep awaiting the transfer alone, without the banking timer.
AuthSweepAwaitingTransfer ==
    /\ auth.pc = "sweep"
    /\ LET x == xfer[SweepXfer] IN
       /\ x.pc = "done"
       /\ \E saveOk \in BOOLEAN :
            IF x.result = "true" /\ balance[auth.account.id] >= auth.req.amount
            THEN approveTransaction([auth EXCEPT !.sweepResult = "true"], saveOk)
            ELSE FundsCheck([auth EXCEPT !.sweepResult = x.result], saveOk)
    /\ UNCHANGED <<balance, lockOwner, xfer, accounts, ruleStore, request0, startBalance, engine, history>>

AuthSweep ==
    /\ auth.pc = "sweep"
    /\ LET x == xfer[SweepXfer] IN
       \/ \* the transfer resolved true before the timer: re-read the balance
          /\ x.pc = "done" /\ x.result = "true"
          /\ LET a == [auth EXCEPT !.sweepResult = "true"] IN
             \/ /\ balance[auth.account.id] >= auth.req.amount
                /\ \E saveOk \in BOOLEAN : approveTransaction(a, saveOk)
             \/ /\ balance[auth.account.id] < auth.req.amount
                /\ \E saveOk \in BOOLEAN : FundsCheck(a, saveOk)
             \/ \* the re-read throws
                \E saveOk \in BOOLEAN :
                  FundsCheck([a EXCEPT !.faults = @ \cup {"reread"}], saveOk)
       \/ \* the transfer resolved false or rejected before the timer
          /\ x.pc = "done" /\ x.result \in {"false", "throw"}
          /\ \E saveOk \in BOOLEAN :
               FundsCheck([auth EXCEPT !.sweepResult = x.result], saveOk)
       \/ \* the timer fires first: the transfer is abandoned, not cancelled
          /\ x.pc # "done"
          /\ \E saveOk \in BOOLEAN :
               FundsCheck([auth EXCEPT !.sweepResult = "timeout"], saveOk)
    /\ UNCHANGED <<balance, lockOwner, xfer, accounts, ruleStore, request0, startBalance, engine, history>>

\* The catch block of authorize: a new entity with the request's fields, status failed,
\* saved inside its own try, and the system_error response.
FailedEntity(r) ==
    [NoTransaction EXCEPT
       !.transactionId = r.transactionId, !.accountId = r.accountId,
       !.amount = r.amount, !.currency = r.currency, !.countryCode = r.countryCode,
       !.paymentMethod = r.paymentMethod,
       !.paymentToken = IF Present(r.paymentToken) THEN r.paymentToken ELSE Absent,
       !.cardBrand = r.cardBrand,
       !.cardLast4 = IF Present(r.cardLast4) THEN r.cardLast4 ELSE Absent,
       !.cardExpiryMonth = r.cardExpiryMonth, !.cardExpiryYear = r.cardExpiryYear,
       !.cardFingerprint = IF Present(r.cardFingerprint) THEN r.cardFingerprint ELSE Absent,
       !.status = "failed", !.declineReason = "system_error"]

\* AuthCatch with the save of the failed entity outside a try of its own: a save that
\* throws leaves authorize by exception.
AuthCatchUnguarded ==
    /\ auth.pc = "catch"
    /\ \E saveOk \in BOOLEAN :
         /\ txStore' = IF saveOk THEN SaveRow(FailedEntity(auth.req)) ELSE txStore
         /\ auth' = IF saveOk
                    THEN [auth EXCEPT !.pc = "done",
                                      !.response = [decision |-> "decline",
                                                    reasonCode |-> "system_error"]]
                    ELSE [auth EXCEPT !.pc = "thrown", !.faults = @ \cup {"catchSave"}]
    /\ UNCHANGED <<balance, lockOwner, xfer, accounts, ruleStore, request0, startBalance, engine, history>>

AuthCatch ==
    /\ auth.pc = "catch"
    /\ \E saveOk \in BOOLEAN :
         /\ txStore' = IF saveOk THEN SaveRow(FailedEntity(auth.req)) ELSE txStore
         /\ auth' = [auth EXCEPT !.pc = "done",
                                 !.response = [decision |-> "decline",
                                               reasonCode |-> "system_error"],
                                 !.faults = IF saveOk THEN @ ELSE @ \cup {"catchSave"}]
    /\ UNCHANGED <<balance, lockOwner, xfer, accounts, ruleStore, request0, startBalance, engine, history>>

AuthStep ==
    \/ AuthValidate
    \/ AuthCreate
    \/ AuthLoad
    \/ AuthEnrich
    \/ AuthEvaluate
    \/ AuthDecide
    \/ AuthSweep
    \/ AuthCatch

(***************************************************************************)
(* One authorize call: the request, the rule rows and the account rows are *)
(* drawn from bounded sets; every store call may throw.                    *)
(***************************************************************************)
ValidPan == Digits(<<4, 2, 4, 2, 4, 2, 4, 2, 4, 2, 4, 2, 4, 2, 4, 2>>)
InvalidPan == Digits(<<4, 2, 4, 2, 4, 2, 4, 2, 4, 2, 4, 2, 4, 2, 4, 1>>)
Cvv == Digits(<<1, 2, 3>>)
RiskyToken == Str("tkn_risky123")

BaseRequest ==
    [transactionId |-> "tx1", accountId |-> "a1", amount |-> 1, currency |-> "USD",
     countryCode |-> "US", paymentMethod |-> "card", paymentToken |-> Str("tkn_valid123"),
     cardBrand |-> "visa", cardLast4 |-> Digits(<<4, 2, 4, 2>>), cardExpiryMonth |-> 12,
     cardExpiryYear |-> 2030, cardFingerprint |-> Str("fp_abc123"),
     cardNumber |-> Absent, cvv |-> Absent, metadata |-> Absent]

AuthEvidence == Obj([additionalAuthProvided |-> Str("true")])

MetadataSamples ==
    {Absent,
     Obj([note |-> Str("gift")]),
     Obj([cardNumber |-> ValidPan, cvv |-> Cvv]),
     Obj([pan |-> ValidPan, device |-> Obj([cvv |-> Cvv, pin |-> Digits(<<1, 2, 3, 4>>)])]),
     Obj([note |-> ValidPan]),
     Obj([billing |-> Obj([securityCode |-> Cvv])])}

\* Requests that vary what the decision reads.
DecisionRequests ==
    {[BaseRequest EXCEPT !.amount = m, !.metadata = md] :
        m \in 1..MaxAmount, md \in {Absent, AuthEvidence}}

\* Requests that vary the card data and the caller's metadata.
CardRequests ==
    {[BaseRequest EXCEPT !.paymentMethod = pm, !.cardNumber = cn, !.cvv = cv,
                         !.paymentToken = tk, !.cardLast4 = Absent,
                         !.cardFingerprint = Absent, !.metadata = md] :
        pm \in {"card", "wallet"}, cn \in {Absent, ValidPan, InvalidPan},
        cv \in {Absent, Cvv}, tk \in {Absent, Str("tkn_valid123")},
        md \in MetadataSamples}

\* Requests that vary the account identifier and the payment token.
TokenRequests ==
    {[BaseRequest EXCEPT !.accountId = id, !.paymentToken = tk, !.amount = m] :
        id \in {"a1", "acc_1", "1002", MissingId, "acc_9"},
        tk \in {Str("tkn_valid123"), RiskyToken}, m \in 1..MaxAmount}

RuleActions == {"decline", "sweep", "step_up_auth", "review"}

AmountRule(id, action, priority, global) ==
    [id |-> id, action |-> action, priority |-> priority,
     conditions |-> [amount_greater_than |-> 1], isActive |-> TRUE,
     isGlobal |-> global, accountId |-> IF global THEN "" ELSE "a1"]

HighRiskTokenRule(id, action, priority) ==
    [id |-> id, action |-> action, priority |-> priority,
     conditions |-> [card |-> [highRiskTokens |-> {RiskyToken}]], isActive |-> TRUE,
     isGlobal |-> TRUE, accountId |-> ""]

\* An account-bound rule, loaded first, and a global rule of every pair of actions.
DecisionRules ==
    {<<AmountRule("r1", a1, MaxPriority, FALSE), AmountRule("r2", a2, 1, TRUE)>> :
        a1 \in RuleActions, a2 \in RuleActions}

\* Decline rules of every priority: two bound to the account, one global.
PriorityRules ==
    {<<AmountRule("r1", "decline", p1, FALSE), AmountRule("r2", "decline", p2, TRUE),
       AmountRule("r3", a3, p3, FALSE)>> :
        p1 \in 1..MaxPriority, p2 \in 1..MaxPriority, p3 \in 1..MaxPriority,
        a3 \in {"decline", "step_up_auth"}}

CardRules ==
    {<<HighRiskTokenRule("r1", "decline", p1), AmountRule("r2", a2, p2, TRUE)>> :
        a2 \in {"decline", "review"}, p1 \in 1..MaxPriority, p2 \in 1..MaxPriority}
    \cup {<<[HighRiskTokenRule("r1", "decline", 1) EXCEPT
               !.conditions = [card |-> [highRiskTokens |-> {RiskyToken}],
                               currency_equals |-> "USD"]]>>,
          <<[HighRiskTokenRule("r1", "decline", 1) EXCEPT !.isActive = FALSE]>>}

\* A rule bound to the account whose only condition reads the country code.
CountryRule(id, action, priority) ==
    [id |-> id, action |-> action, priority |-> priority,
     conditions |-> [country_code_equals |-> "US"], isActive |-> TRUE,
     isGlobal |-> FALSE, accountId |-> "a1"]

CountryRules == {<<CountryRule("r1", a, 1)>> : a \in {"decline", "sweep", "step_up_auth"}}

\* Requests that vary the country code, which the enrichment fills when it is missing.
CountryRequests ==
    {[BaseRequest EXCEPT !.countryCode = cc, !.amount = m] :
        cc \in {"", "US", "CA"}, m \in 1..MaxAmount}

\* The seed rule 'Expired Card Check': a global decline rule whose only condition is
\* the card block {requireValidExpiry: true}.
ExpiredCardRule(id) ==
    [id |-> id, action |-> "decline", priority |-> 1,
     conditions |-> [card |-> [requireValidExpiry |-> TRUE]], isActive |-> TRUE,
     isGlobal |-> TRUE, accountId |-> ""]

\* The seed rule 'Card Brand Restrictions': a global decline rule whose only condition
\* is the card block {brands: [visa, mastercard], operator: 'not'}.
CardBrandRule(id) ==
    [id |-> id, action |-> "decline", priority |-> 1,
     conditions |-> [card |-> [brands |-> {"visa", "mastercard"}, operator |-> "not"]],
     isActive |-> TRUE, isGlobal |-> TRUE, accountId |-> ""]

CardBlockRules == {<<ExpiredCardRule("r1")>>, <<CardBrandRule("r1")>>}

\* <<month, year>> of expiry: before, just before, at and after the current month.
ExpiryDates ==
    {<<12, CurrentYear - 1>>, <<CurrentMonth - 1, CurrentYear>>,
     <<CurrentMonth, CurrentYear>>, <<1, CurrentYear + 1>>}

\* Card requests that vary the brand and the expiry date.
CardBlockRequests ==
    {[BaseRequest EXCEPT !.cardBrand = b, !.cardExpiryMonth = e[1],
                         !.cardExpiryYear = e[2]] :
        b \in {"visa", "mastercard", "amex"}, e \in ExpiryDates}

SweepAccount(a, status, enabled, source) ==
    [PlainAccount(a) EXCEPT !.status = status, !.isSweepEnabled = enabled,
                            !.sweepAccountId = source]

\* The card account a1 and its sweep source a2.
DecisionAccounts ==
    {[a \in AccountIds |-> IF a = "a1" THEN SweepAccount(a, "active", en, "a2")
                                       ELSE PlainAccount(a)] : en \in BOOLEAN}

EdgeAccounts ==
    {[a \in AccountIds |-> IF a = "a1" THEN SweepAccount(a, st, TRUE, src)
                                       ELSE PlainAccount(a)] :
        st \in {"active", "inactive"}, src \in {"", "a1", "a2", MissingId}}

\* Account rows whose second account number is of the canonical UUID form (and names
\* no account id) or is a prefixed alias; the column is a free string of 50 characters.
NumberedAccounts ==
    {[a \in AccountIds |-> IF a = "a2" THEN [PlainAccount(a) EXCEPT !.accountNumber = n]
                                       ELSE PlainAccount(a)] : n \in {MissingId, "acc_9"}}

Balances == [AccountIds -> 0..MaxBalance]
AmpleBalances == {[a \in AccountIds |-> MaxBalance]}
SweepRule == <<AmountRule("r1", "sweep", 1, FALSE)>>

\* A row that an earlier call left in the store.
HistoryRow(accountId, paymentMethod, token, fingerprint, age) ==
    [accountId |-> accountId, amount |-> 1, countryCode |-> "US",
     paymentMethod |-> paymentMethod, paymentToken |-> token,
     cardFingerprint |-> fingerprint, age |-> age, hour |-> CurrentHour]

\* Earlier rows from the newest on: the card of the request on its account 10, 45 and
\* 90 minutes ago, another card, a wallet payment, and the card of the request on the
\* other account.
HistoryPool ==
    <<HistoryRow("a1", "card", BaseRequest.paymentToken, BaseRequest.cardFingerprint, 10),
      HistoryRow("a1", "card", Str("tkn_other456"), Str("fp_other456"), 10),
      HistoryRow("a1", "wallet", Absent, Absent, 10),
      HistoryRow("a2", "card", BaseRequest.paymentToken, BaseRequest.cardFingerprint, 10),
      HistoryRow("a1", "card", BaseRequest.paymentToken, BaseRequest.cardFingerprint, 45),
      HistoryRow("a1", "card", BaseRequest.paymentToken, BaseRequest.cardFingerprint, 90),
      HistoryRow("a1", "card", Str("tkn_other456"), Str("fp_other456"), 90)>>

\* The stores of at most MaxHistory earlier rows, newest first.
Histories ==
    {[i \in DOMAIN pick |-> HistoryPool[pick[i]]] :
        pick \in {p \in UNION {[1..n -> DOMAIN HistoryPool] : n \in 0..MaxHistory} :
                    \A i \in DOMAIN p : i > 1 => p[i - 1] <= p[i]}}

\* A card request and a wallet request that names no card.
HistoryRequests ==
    {BaseRequest,
     [BaseRequest EXCEPT !.paymentMethod = "wallet", !.paymentToken = Absent,
                         !.cardFingerprint = Absent, !.cardLast4 = Absent]}

PlainAccounts == {[a \in AccountIds |-> PlainAccount(a)]}

\* <<request, rule rows, account rows, balances, earlier transaction rows>>
HistoryInputs == HistoryRequests \X {<<>>} \X PlainAccounts \X AmpleBalances \X Histories

\* Card requests that carry a card number and no token, with and without the last 4
\* digits and the fingerprint of the card.
TokenizingRequests ==
    {[BaseRequest EXCEPT !.cardNumber = ValidPan, !.paymentToken = Absent,
                         !.cardLast4 = l4, !.cardFingerprint = fp] :
        l4 \in {Absent, Digits(<<9, 9, 9, 9>>)}, fp \in {Absent, Str("fp_abc123")}}

\* A decline rule on the amount that is active or not and is global, bound to the
\* account of the request or bound to the other account, next to an active rule.
ScopedRules ==
    {<<[AmountRule("r1", "decline", 1, scope = "") EXCEPT !.isActive = active,
                                                          !.accountId = scope],
       AmountRule("r2", a2, 1, g2)>> :
        active \in BOOLEAN, scope \in {"", "a1", "a2"}, a2 \in {"review", "decline"},
        g2 \in BOOLEAN}

\* A rule row that is bound to the account of the request and flagged global as well.
SharedRules ==
    {<<[AmountRule("r1", action, 1, TRUE) EXCEPT !.isActive = active, !.accountId = "a1"]>> :
        action \in {"decline", "review"}, active \in BOOLEAN}

\* <<request, rule rows, account rows, balances>>
AuthInputs ==
    (DecisionRequests \X DecisionRules \X DecisionAccounts \X Balances)
    \cup (DecisionRequests \X PriorityRules \X DecisionAccounts \X AmpleBalances)
    \cup (TokenRequests \X CardRules \X DecisionAccounts \X AmpleBalances)
    \cup (CardRequests \X {SweepRule} \X DecisionAccounts \X AmpleBalances)
    \cup (DecisionRequests \X {SweepRule} \X EdgeAccounts \X Balances)
    \cup (CountryRequests \X CountryRules \X DecisionAccounts \X Balances)
    \cup (CardBlockRequests \X CardBlockRules \X DecisionAccounts \X AmpleBalances)
    \cup (TokenRequests \X {SweepRule} \X NumberedAccounts \X AmpleBalances)
    \cup (TokenizingRequests \X {SweepRule} \X PlainAccounts \X AmpleBalances)
    \cup (DecisionRequests \X ScopedRules \X PlainAccounts \X AmpleBalances)
    \cup (DecisionRequests \X SharedRules \X PlainAccounts \X AmpleBalances)

InitAuth ==
    /\ engine = IdleEngine
    /\ lockOwner = [a \in AccountIds |-> NoXfer]
    /\ xfer = [i \in XferIds |-> IdleXfer]
    /\ txStore = <<>>
    /\ \E in \in AuthInputs \cup HistoryInputs :
         /\ history = IF Len(in) > 4 THEN in[5] ELSE <<>>
         /\ balance = in[4]
         /\ startBalance = in[4]
         /\ request0 = in[1]
         /\ ruleStore = in[2]
         /\ accounts = in[3]
         /\ auth = [IdleAuth EXCEPT !.pc = "validate", !.req = in[1]]

NextAuth == AuthStep \/ XferStep(SweepXfer)

SpecAuth == InitAuth /\ [][NextAuth]_vars

\* The same call with the timers firing and the store calls returning: every step of
\* authorize that can be taken is taken in the end.  Nothing is assumed of the
\* transfer, which may stop at any of its steps for good; the enrichment provider
\* that never answers is the timer branch of AuthEnrich.
SpecAuthLive == InitAuth /\ [][NextAuth]_vars /\ WF_vars(AuthStep)

(***************************************************************************)
(* Concurrent transfers: every transferFunds call is started with inputs   *)
(* drawn from the bounded sets, over balances that start non-negative.     *)
(***************************************************************************)
XferEndpoints == AccountIds \cup {MissingId}

InitTransfer ==
    /\ engine = IdleEngine
    /\ history = <<>>
    /\ balance \in [AccountIds -> 0..MaxBalance]
    /\ startBalance = balance
    /\ accounts = [a \in AccountIds |-> PlainAccount(a)]
    /\ ruleStore = <<>>
    /\ txStore = <<>>
    /\ auth = IdleAuth
    /\ request0 = IdleAuth.req
    /\ lockOwner = [a \in AccountIds |-> NoXfer]
    /\ \E f1, t1, f2, t2 \in XferEndpoints : \E m1, m2 \in 1..MaxAmount :
         xfer = [i \in XferIds |-> IF i = 1 THEN StartedXfer(f1, t1, m1)
                                             ELSE StartedXfer(f2, t2, m2)]

\* One transferFunds call on its own.
InitTransferOne ==
    /\ engine = IdleEngine
    /\ history = <<>>
    /\ balance \in [AccountIds -> 0..MaxBalance]
    /\ startBalance = balance
    /\ accounts = [a \in AccountIds |-> PlainAccount(a)]
    /\ ruleStore = <<>>
    /\ txStore = <<>>
    /\ auth = IdleAuth
    /\ request0 = IdleAuth.req
    /\ lockOwner = [a \in AccountIds |-> NoXfer]
    /\ \E f \in XferEndpoints, t \in XferEndpoints, m \in 1..MaxAmount :
         xfer = [i \in XferIds |-> IF i = 1 THEN StartedXfer(f, t, m) ELSE IdleXfer]

SpecTransferOne == InitTransferOne /\ [][XferStep(1)]_vars

NextTransfer == \E i \in XferIds : XferStep(i)

SpecTransfer == InitTransfer /\ [][NextTransfer]_vars

(***************************************************************************)
(* Direct calls of RuleEngineService.evaluateRules                         *)
(***************************************************************************)
\* A rule whose condition value is not a string.
MalformedRule(id, action, priority) ==
    [CountryRule(id, action, priority) EXCEPT
        !.conditions = [country_code_equals |-> NonStringValue]]

EngineTransactions ==
    {[PendingEntity(BaseRequest) EXCEPT !.rowId = 1, !.amount = m, !.countryCode = cc] :
        m \in 1..MaxAmount, cc \in {"", "US"}}

EngineRulePool ==
    {AmountRule("r1", "decline", p, FALSE) : p \in 1..MaxPriority}
    \cup {CountryRule("r2", "sweep", p) : p \in 1..MaxPriority}
    \cup {MalformedRule("r3", "decline", p) : p \in 1..MaxPriority}

\* Rule lists in every order, no rule id twice.
EngineRuleLists ==
    {<<>>} \cup {<<r>> : r \in EngineRulePool}
    \cup {l \in {<<r, q>> : r \in EngineRulePool, q \in EngineRulePool} :
            l[1].id # l[2].id}
    \cup {l \in {<<r, q, u>> : r \in EngineRulePool, q \in EngineRulePool,
                               u \in EngineRulePool} :
            l[1].id # l[2].id /\ l[1].id # l[3].id /\ l[2].id # l[3].id}

InitRules ==
    /\ history = <<>>
    /\ balance = [a \in AccountIds |-> 0]
    /\ startBalance = balance
    /\ lockOwner = [a \in AccountIds |-> NoXfer]
    /\ xfer = [i \in XferIds |-> IdleXfer]
    /\ accounts = [a \in AccountIds |-> PlainAccount(a)]
    /\ ruleStore = <<>>
    /\ txStore = <<>>
    /\ auth = IdleAuth
    /\ request0 = IdleAuth.req
    /\ \E t \in EngineTransactions, rules \in EngineRuleLists :
         engine = [pc |-> "call", transaction |-> t, rules |-> rules, results |-> <<>>]

EvaluateRulesCall ==
    /\ engine.pc = "call"
    /\ engine' = [engine EXCEPT !.pc = "returned",
                                !.results = evaluateRules(engine.transaction, engine.rules)]
    /\ UNCHANGED <<balance, lockOwner, xfer, accounts, ruleStore, txStore, auth, request0,
                   startBalance, history>>

SpecRules == InitRules /\ [][EvaluateRulesCall]_vars

(***************************************************************************)
(* Direct calls of RuleEngineService.evaluateBehavioralPatterns            *)
(***************************************************************************)
InitDetector ==
    /\ history = <<>>
    /\ balance = [a \in AccountIds |-> 0]
    /\ startBalance = balance
    /\ lockOwner = [a \in AccountIds |-> NoXfer]
    /\ xfer = [i \in XferIds |-> IdleXfer]
    /\ accounts = [a \in AccountIds |-> PlainAccount(a)]
    /\ ruleStore = <<>>
    /\ txStore = <<>>
    /\ auth = IdleAuth
    /\ request0 = IdleAuth.req
    /\ \E historyOk \in BOOLEAN, o \in CheckOutcomes :
         engine = [pc |-> "call", historyOk |-> historyOk, outcomes |-> o,
                   results |-> <<>>]

EvaluateBehavioralPatternsCall ==
    /\ engine.pc = "call"
    /\ engine' = [engine EXCEPT
                    !.pc = "returned",
                    !.results = evaluateBehavioralPatterns(engine.historyOk,
                                                           engine.outcomes)]
    /\ UNCHANGED <<balance, lockOwner, xfer, accounts, ruleStore, txStore, auth, request0,
                   startBalance, history>>

SpecDetector == InitDetector /\ [][EvaluateBehavioralPatternsCall]_vars

(***************************************************************************)
(* Direct calls of RuleEngineService.detectAmountAnomaly                   *)
(***************************************************************************)
MaxHistoryAmount == 3
MaxCurrentAmount == 12
MaxHistoryLen == 5

\* History lists of small amounts, some shorter than the check asks for, with the
\* amounts to test against them; and the documented history with 12 and 1000.
AmountInputs ==
    {<<x, h>> : x \in 1..MaxCurrentAmount,
                h \in UNION {[1..n -> 1..MaxHistoryAmount] : n \in 2..MaxHistoryLen}}
    \cup {<<x, <<10, 12, 11, 9, 13>>>> : x \in {12, 1000}}
    \cup {<<x, <<10, 10, 10>>>> : x \in {12, 14}}

InitAmount ==
    /\ history = <<>>
    /\ balance = [a \in AccountIds |-> 0]
    /\ startBalance = balance
    /\ lockOwner = [a \in AccountIds |-> NoXfer]
    /\ xfer = [i \in XferIds |-> IdleXfer]
    /\ accounts = [a \in AccountIds |-> PlainAccount(a)]
    /\ ruleStore = <<>>
    /\ txStore = <<>>
    /\ auth = IdleAuth
    /\ request0 = IdleAuth.req
    /\ \E in \in AmountInputs :
         engine = [pc |-> "call", amount |-> in[1], amounts |-> in[2], result |-> "none"]

DetectAmountAnomalyCall ==
    /\ engine.pc = "call"
    /\ \E tieAbove \in BOOLEAN :
         engine' = [engine EXCEPT
                      !.pc = "returned",
                      !.result = detectAmountAnomaly(
                                     [amount |-> engine.amount],
                                     [i \in DOMAIN engine.amounts |->
                                        [amount |-> engine.amounts[i]]],
                                     tieAbove)]
    /\ UNCHANGED <<balance, lockOwner, xfer, accounts, ruleStore, txStore, auth, request0,
                   startBalance, history>>

SpecAmount == InitAmount /\ [][DetectAmountAnomalyCall]_vars

(***************************************************************************)
(* Direct calls of DataSecurityService.isValidPan                          *)
(***************************************************************************)
MaxPanLen == 20

\* The digit string 4242... of the given length that ends in the digits a, b.
PanDigits(len, a, b) ==
    [i \in 1..len |-> IF i = len THEN b ELSE IF i = len - 1 THEN a
                      ELSE IF i % 2 = 1 THEN 4 ELSE 2]

\* Digit strings around the accepted lengths with every pair of last digits, the
\* empty string, and strings that hold a character other than a digit.
PanInputs ==
    {Digits(PanDigits(len, a, b)) : len \in 12..MaxPanLen, a \in 0..9, b \in 0..9}
    \cup {Digits(<<>>), Str("4242 4242 4242 4242"), maskPan(ValidPan)}

InitPan ==
    /\ history = <<>>
    /\ balance = [a \in AccountIds |-> 0]
    /\ startBalance = balance
    /\ lockOwner = [a \in AccountIds |-> NoXfer]
    /\ xfer = [i \in XferIds |-> IdleXfer]
    /\ accounts = [a \in AccountIds |-> PlainAccount(a)]
    /\ ruleStore = <<>>
    /\ txStore = <<>>
    /\ auth = IdleAuth
    /\ request0 = IdleAuth.req
    /\ \E v \in PanInputs : engine = [pc |-> "call", pan |-> v, result |-> FALSE]

IsValidPanCall ==
    /\ engine.pc = "call"
    /\ engine' = [engine EXCEPT !.pc = "returned", !.result = isValidPan(engine.pan)]
    /\ UNCHANGED <<balance, lockOwner, xfer, accounts, ruleStore, txStore, auth, request0,
                   startBalance, history>>

SpecPan == InitPan /\ [][IsValidPanCall]_vars

(***************************************************************************)
(* RuleEngineService: the fuzzy merchant-name matcher.  A merchant name is *)
(* the sequence of its characters.                                         *)
(***************************************************************************)
UpperCase == <<"A", "B", "C", "D", "E", "F", "G", "H", "I", "J", "K", "L", "M", "N", "O", "P", "Q", "R", "S", "T", "U", "V", "W", "X", "Y", "Z">>
LowerCase == <<"a", "b", "c", "d", "e", "f", "g", "h", "i", "j", "k", "l", "m", "n", "o", "p", "q", "r", "s", "t", "u", "v", "w", "x", "y", "z">>
DigitChars == {"0", "1", "2", "3", "4", "5", "6", "7", "8", "9"}

UpperChars == {UpperCase[i] : i \in 1..Len(UpperCase)}
LowerChars == {LowerCase[i] : i \in 1..Len(LowerCase)}
LowerOf == [c \in UpperChars |-> LowerCase[CHOOSE i \in 1..Len(UpperCase) : UpperCase[i] = c]]

IsUpper(c) == c \in UpperChars
IsLower(c) == c \in LowerChars
IsLetter(c) == IsUpper(c) \/ IsLower(c)
\* The regular expression classes \d, \w and \s over the characters of the model.
IsDigitChar(c) == c \in DigitChars
IsWordChar(c) == IsLetter(c) \/ IsDigitChar(c) \/ c = "_"
IsSpaceChar(c) == c = " "

LowerChar(c) == IF IsUpper(c) THEN LowerOf[c] ELSE c
toLowerCase(s) == [i \in 1..Len(s) |-> LowerChar(s[i])]

DropFirst(s, n) == SubSeq(s, n + 1, Len(s))
DropLast(s, n) == SubSeq(s, 1, Len(s) - n)

\* The characters of s at the positions outside drop, in order.
RECURSIVE WithoutPositions(_, _, _)
WithoutPositions(s, drop, i) ==
    IF i > Len(s) THEN <<>>
    ELSE (IF i \in drop THEN <<>> ELSE <<s[i]>>) \o WithoutPositions(s, drop, i + 1)

\* /^sq\*|^sq |^SQ\*|^SQ |^txn\*|^amzn\*|^pmt\*|^pp\*|^pypl\*/i : the alternatives in
\* lower case, in the order of the expression; the first that matches is removed.
PaymentPrefixes == <<<<"s", "q", "*">>, <<"s", "q", " ">>, <<"s", "q", "*">>, <<"s", "q", " ">>, <<"t", "x", "n", "*">>, <<"a", "m", "z", "n", "*">>, <<"p", "m", "t", "*">>, <<"p", "p", "*">>, <<"p", "y", "p", "l", "*">>>>

HasPrefixAt(s, k) ==
    /\ Len(s) >= Len(PaymentPrefixes[k])
    /\ toLowerCase(SubSeq(s, 1, Len(PaymentPrefixes[k]))) = PaymentPrefixes[k]

stripPaymentPrefix(s) ==
    LET hits == {k \in 1..Len(PaymentPrefixes) : HasPrefixAt(s, k)}
    IN IF hits = {} THEN s
       ELSE DropFirst(s, Len(PaymentPrefixes[CHOOSE k \in hits : \A j \in hits : k <= j]))

\* The longest run of digits (of spaces) that starts at position i.
DigitRunFrom(s, i) == CHOOSE n \in 0..(Len(s) - i + 1) :
    /\ \A k \in i..(i + n - 1) : IsDigitChar(s[k])
    /\ (i + n > Len(s) \/ ~IsDigitChar(s[i + n]))
SpaceRunFrom(s, i) == CHOOSE n \in 0..(Len(s) - i + 1) :
    /\ \A k \in i..(i + n - 1) : IsSpaceChar(s[k])
    /\ (i + n > Len(s) \/ ~IsSpaceChar(s[i + n]))

\* /^\d+\s+/ : leading digits together with the white space after them.
stripLeadingNumbers(s) ==
    LET d == DigitRunFrom(s, 1)
        w == SpaceRunFrom(s, d + 1)
    IN IF d >= 1 /\ w >= 1 THEN DropFirst(s, d + w) ELSE s

\* /\bINC\b|\bLLC\b|\bLTD\b|\bCORP\b|\bCO\b/gi : a match is one of the five words in
\* any letter case with no word character before it and none after it.
CompanyTypes == {<<"i", "n", "c">>, <<"l", "l", "c">>, <<"l", "t", "d">>, <<"c", "o", "r", "p">>, <<"c", "o">>}

CompanyTypeAt(s, j, w) ==
    /\ j + Len(w) - 1 <= Len(s)
    /\ (j = 1 \/ ~IsWordChar(s[j - 1]))
    /\ (j + Len(w) > Len(s) \/ ~IsWordChar(s[j + Len(w)]))
    /\ toLowerCase(SubSeq(s, j, j + Len(w) - 1)) = w

stripCompanyTypes(s) ==
    WithoutPositions(s, UNION {j..(j + Len(w) - 1) : <<j, w>> \in
        {m \in (1..Len(s)) \X CompanyTypes : CompanyTypeAt(s, m[1], m[2])}}, 1)

\* The longest run of digits (of letters) that ends the string.
TrailingDigits(s) == CHOOSE n \in 0..Len(s) :
    /\ \A k \in (Len(s) - n + 1)..Len(s) : IsDigitChar(s[k])
    /\ (n = Len(s) \/ ~IsDigitChar(s[Len(s) - n]))
TrailingLetters(s) == CHOOSE n \in 0..Len(s) :
    /\ \A k \in (Len(s) - n + 1)..Len(s) : IsLetter(s[k])
    /\ (n = Len(s) \/ ~IsLetter(s[Len(s) - n]))
TrailingSpaces(s) == CHOOSE n \in 0..Len(s) :
    /\ \A k \in (Len(s) - n + 1)..Len(s) : IsSpaceChar(s[k])
    /\ (n = Len(s) \/ ~IsSpaceChar(s[Len(s) - n]))

\* /\d{4,}$/ : four or more digits at the end.
stripTrailingNumbers(s) ==
    IF TrailingDigits(s) >= 4 THEN DropLast(s, TrailingDigits(s)) ELSE s

\* /\-\d+[a-z]*$/i : a hyphen, digits and then letters up to the end.
stripHyphenSuffix(s) ==
    LET l == TrailingLetters(s)
        head == DropLast(s, l)
        d == TrailingDigits(head)
    IN IF d >= 1 /\ Len(head) > d /\ head[Len(head) - d] = "-"
       THEN DropLast(head, d + 1) ELSE s

\* /[^\w\s]/g replaced by a space.
replaceNonAlphanumeric(s) ==
    [i \in 1..Len(s) |-> IF IsWordChar(s[i]) \/ IsSpaceChar(s[i]) THEN s[i] ELSE " "]

\* /\s+/g replaced by one space.
collapseSpaces(s) ==
    WithoutPositions(s, {i \in 2..Len(s) : IsSpaceChar(s[i]) /\ IsSpaceChar(s[i - 1])}, 1)

trim(s) ==
    LET rest == DropFirst(s, SpaceRunFrom(s, 1))
    IN DropLast(rest, TrailingSpaces(rest))

\* cleanMerchantName without the removal of the trailing location code.
cleanMerchantNameKeepingTrailingNumbers(merchantName) ==
    IF merchantName = <<>> THEN <<>>
    ELSE trim(collapseSpaces(replaceNonAlphanumeric(stripHyphenSuffix(
            stripCompanyTypes(stripLeadingNumbers(stripPaymentPrefix(merchantName)))))))

\* cleanMerchantName: the seven replacements in the order of the chain, then trim.
cleanMerchantName(merchantName) ==
    IF merchantName = <<>> THEN <<>>
    ELSE trim(collapseSpaces(replaceNonAlphanumeric(stripHyphenSuffix(stripTrailingNumbers(
            stripCompanyTypes(stripLeadingNumbers(stripPaymentPrefix(merchantName))))))))

\* Similarities are counted in tenths, the blended score in hundredths.
FullSimilarity == 10

\* The three similarity functions call the libraries natural and string-similarity.
\* What the model takes from them: two equal strings are at distance 0, have similarity
\* 1 and the same phonetic code; for two different strings the library's answer is the
\* argument lib (an edit distance of at least 1 keeps the first below 1).
getLevenshteinSimilarity(s1, s2, lib) ==
    IF toLowerCase(s1) = toLowerCase(s2) THEN FullSimilarity
    ELSE IF lib = FullSimilarity THEN FullSimilarity - 1 ELSE lib
getJaroWinklerSimilarity(s1, s2, lib) ==
    IF toLowerCase(s1) = toLowerCase(s2) THEN FullSimilarity ELSE lib
getPhoneticSimilarity(s1, s2, lib) ==
    IF s1 = s2 THEN FullSimilarity ELSE lib

\* DEFAULT_WEIGHTS in tenths and CONFIDENCE_THRESHOLD in hundredths.
DEFAULT_WEIGHTS == [levenshtein |-> 4, jaroWinkler |-> 4, phonetic |-> 2]
CONFIDENCE_THRESHOLD == 70

computeConfidenceScore(actual, expected, lib) ==
    IF actual = <<>> \/ expected = <<>> THEN 0
    ELSE LET cleanActual == cleanMerchantName(actual)
             cleanExpected == cleanMerchantName(expected)
         IN IF Len(cleanActual) < 3 \/ Len(cleanExpected) < 3
            THEN (IF cleanActual = cleanExpected THEN 100 ELSE 0)
            ELSE getLevenshteinSimilarity(cleanActual, cleanExpected, lib[1]) * DEFAULT_WEIGHTS.levenshtein
                 + getJaroWinklerSimilarity(cleanActual, cleanExpected, lib[2]) * DEFAULT_WEIGHTS.jaroWinkler
                 + getPhoneticSimilarity(cleanActual, cleanExpected, lib[3]) * DEFAULT_WEIGHTS.phonetic

\* smartStringMatch: "confidenceScore >= CONFIDENCE_THRESHOLD" on doubles; a blended sum
\* that is 0.7 in exact arithmetic can round to either side, which tieAbove stands for.
smartStringMatch(actual, expected, lib, tieAbove) ==
    /\ actual # <<>>
    /\ LET confidenceScore == computeConfidenceScore(actual, expected, lib)
       IN \/ confidenceScore > CONFIDENCE_THRESHOLD
          \/ confidenceScore = CONFIDENCE_THRESHOLD /\ tieAbove

\* The case 'merchant_name_equals' of evaluateCondition: the fuzzy matcher on raw data,
\* stringMatch (equality after toLowerCase) on enriched data.
evaluateMerchantNameEquals(merchantName, isEnriched, conditionValue, lib, tieAbove) ==
    IF ~isEnriched THEN smartStringMatch(merchantName, conditionValue, lib, tieAbove)
    ELSE merchantName # <<>> /\ toLowerCase(merchantName) = toLowerCase(conditionValue)

(***************************************************************************)
(* Direct calls of evaluateCondition with a merchant_name_equals condition *)
(***************************************************************************)
SquareJoesCoffee == <<"S", "Q", " ", "*", "J", "o", "e", "'", "s", " ", "C", "o", "f", "f", "e", "e", " ", "4", "8", "2", "1">>
JoesCoffee == <<"J", "o", "e", "'", "s", " ", "C", "o", "f", "f", "e", "e">>

\* Names as a card network delivers them: a processor prefix, a leading number, the
\* name itself, a company type and a location code, each present or not.
NamePrefixes == {<<>>, <<"S", "Q", " ", "*">>, <<"s", "q", "*">>, <<"P", "Y", "P", "L", "*">>}
NameLeads == {<<>>, <<"1", "2", " ">>}
NameBases == {<<"J", "o", "e", "'", "s", " ", "C", "o", "f", "f", "e", "e">>, <<"J", "O", "E", "S", " ", "C", "O", "F", "F", "E", "E">>, <<"J", "o">>}
NameCompanies == {<<>>, <<" ", "L", "L", "C">>, <<" ", "C", "o">>}
NameTrails == {<<>>, <<" ", "4", "8", "2", "1">>, <<" ", "4", "8", "2">>, <<"-", "4", "5", "A">>}

MerchantNames ==
    {p \o l \o b \o c \o t : p \in NamePrefixes, l \in NameLeads, b \in NameBases,
                             c \in NameCompanies, t \in NameTrails}
    \cup {<<>>}
ConditionValues == {<<"J", "o", "e", "'", "s", " ", "C", "o", "f", "f", "e", "e">>, <<"J", "o", "e", "s", " ", "C", "o", "f", "f", "e", "e">>, <<"J", "o">>, <<>>}
\* What the libraries answer for two different cleaned names: blended scores below,
\* at and above the threshold.
LibraryAnswers == {<<0, 0, 0>>, <<7, 5, 10>>, <<5, 10, 5>>, <<7, 7, 7>>, <<10, 10, 10>>}

InitMerchant ==
    /\ history = <<>>
    /\ balance = [a \in AccountIds |-> 0]
    /\ startBalance = balance
    /\ lockOwner = [a \in AccountIds |-> NoXfer]
    /\ xfer = [i \in XferIds |-> IdleXfer]
    /\ accounts = [a \in AccountIds |-> PlainAccount(a)]
    /\ ruleStore = <<>>
    /\ txStore = <<>>
    /\ auth = IdleAuth
    /\ request0 = IdleAuth.req
    /\ \E m \in MerchantNames, v \in ConditionValues, e \in BOOLEAN :
         engine = [pc |-> "call", merchantName |-> m, conditionValue |-> v, isEnriched |-> e,
                   cleanActual |-> <<>>, cleanExpected |-> <<>>, confidenceScore |-> 0,
                   result |-> FALSE]

MerchantNameEqualsCall ==
    /\ engine.pc = "call"
    /\ LET cleanActual == cleanMerchantName(engine.merchantName)
           cleanExpected == cleanMerchantName(engine.conditionValue)
       IN \E lib \in LibraryAnswers, tieAbove \in BOOLEAN :
         engine' = [engine EXCEPT
            !.pc = "returned",
            !.cleanActual = cleanActual,
            !.cleanExpected = cleanExpected,
            !.confidenceScore = computeConfidenceScore(engine.merchantName, engine.conditionValue, lib),
            !.result = evaluateMerchantNameEquals(engine.merchantName, engine.isEnriched,
                                                  engine.conditionValue, lib, tieAbove)]
    /\ UNCHANGED <<balance, lockOwner, xfer, accounts, ruleStore, txStore, auth, request0,
                   startBalance, history>>

SpecMerchant == InitMerchant /\ [][MerchantNameEqualsCall]_vars

(***************************************************************************)
(* Direct calls of RuleEngineService.evaluateCardRule                      *)
(***************************************************************************)
CardBlockKeys == {"brands", "highRiskTokens", "requireValidExpiry", "fingerprintFrequency"}

FullCardBlock(op) ==
    [brands |-> {"visa", "mastercard"}, highRiskTokens |-> {RiskyToken},
     requireValidExpiry |-> TRUE, fingerprintFrequency |-> [maxCount |-> 3],
     operator |-> op]

\* Every selection of the four sub-conditions, without an operator and with 'or',
\* 'and' and the seed data's 'not'.
CardBlocks ==
    {[k \in keys |-> FullCardBlock("or")[k]] : keys \in SUBSET CardBlockKeys}
    \cup {[k \in keys \cup {"operator"} |-> FullCardBlock(op)[k]] :
            keys \in SUBSET CardBlockKeys, op \in {"or", "and", "not"}}

\* <<month, year>>: the dates of ExpiryDates, no date at all, the end of the current
\* year, and two dates whose month and year point in opposite directions.
CardExpiries ==
    ExpiryDates \cup {<<0, 0>>, <<12, CurrentYear>>, <<CurrentMonth + 1, CurrentYear - 1>>,
                      <<CurrentMonth - 1, CurrentYear + 1>>}

CardTransactionData ==
    {[cardBrand |-> b, paymentToken |-> t, cardExpiryMonth |-> e[1],
      cardExpiryYear |-> e[2], cardFingerprint |-> f] :
        b \in {"", "visa", "amex"}, t \in {Absent, RiskyToken, Str("tkn_valid123")},
        e \in CardExpiries, f \in {Absent, Str("fp_abc123")}}

InitCard ==
    /\ history = <<>>
    /\ balance = [a \in AccountIds |-> 0]
    /\ startBalance = balance
    /\ lockOwner = [a \in AccountIds |-> NoXfer]
    /\ xfer = [i \in XferIds |-> IdleXfer]
    /\ accounts = [a \in AccountIds |-> PlainAccount(a)]
    /\ ruleStore = <<>>
    /\ txStore = <<>>
    /\ auth = IdleAuth
    /\ request0 = IdleAuth.req
    /\ \E c \in CardBlocks, d \in CardTransactionData :
         engine = [pc |-> "call", cardConditions |-> c, txData |-> d, result |-> FALSE]

EvaluateCardRuleCall ==
    /\ engine.pc = "call"
    /\ engine' = [engine EXCEPT !.pc = "returned",
                     !.result = evaluateCardRule(engine.cardConditions, engine.txData)]
    /\ UNCHANGED <<balance, lockOwner, xfer, accounts, ruleStore, txStore, auth, request0,
                   startBalance, history>>

SpecCard == InitCard /\ [][EvaluateCardRuleCall]_vars

(***************************************************************************)
(* Direct calls of DataSecurityService.secureSanitizeObject: once on a     *)
(* nested structure, then again on what the first call returned.           *)
(***************************************************************************)
MaxDepth == 2

\* A plain key, a PCI-named key, the pan key, and a key that holds a nested object.
SanitizeKeys == {"note", "cvv", "pan"}
NestedKey == "device"
SanitizeLeaves == {Str("gift"), ValidPan, InvalidPan}

FlatObjects == UNION {[keys -> SanitizeLeaves] : keys \in SUBSET SanitizeKeys}

RECURSIVE ObjectsOfDepth(_)
ObjectsOfDepth(d) ==
    IF d <= 1 THEN {Obj(f) : f \in FlatObjects}
    ELSE {Obj(f) : f \in FlatObjects}
         \cup {Obj([k \in DOMAIN f \cup {NestedKey} |->
                       IF k = NestedKey THEN inner ELSE f[k]]) :
                 f \in FlatObjects, inner \in ObjectsOfDepth(d - 1)}

InitSanitize ==
    /\ history = <<>>
    /\ balance = [a \in AccountIds |-> 0]
    /\ startBalance = balance
    /\ lockOwner = [a \in AccountIds |-> NoXfer]
    /\ xfer = [i \in XferIds |-> IdleXfer]
    /\ accounts = [a \in AccountIds |-> PlainAccount(a)]
    /\ ruleStore = <<>>
    /\ txStore = <<>>
    /\ auth = IdleAuth
    /\ request0 = IdleAuth.req
    /\ \E x \in ObjectsOfDepth(MaxDepth) :
         engine = [pc |-> "call", obj |-> x, once |-> Absent, twice |-> Absent]

SanitizeCall ==
    /\ engine.pc = "call"
    /\ engine' = [engine EXCEPT !.pc = "sanitized",
                                !.once = secureSanitizeObject(engine.obj)]
    /\ UNCHANGED <<balance, lockOwner, xfer, accounts, ruleStore, txStore, auth, request0,
                   startBalance, history>>

SanitizeAgainCall ==
    /\ engine.pc = "sanitized"
    /\ engine' = [engine EXCEPT !.pc = "returned",
                                !.twice = secureSanitizeObject(engine.once)]
    /\ UNCHANGED <<balance, lockOwner, xfer, accounts, ruleStore, txStore, auth, request0,
                   startBalance, history>>

NextSanitize == SanitizeCall \/ SanitizeAgainCall

SpecSanitize == InitSanitize /\ [][NextSanitize]_vars

(***************************************************************************)
(* Properties of authorize                                                 *)
(***************************************************************************)
AuthDone == auth.pc = "done"

\* The call went through the account gate: the active account was loaded.
AccountLoaded == auth.account.id # ""

\* The rules that apply to the call's account as the stores hold them.
ApplicableRules ==
    {ruleStore[i] : i \in {j \in 1..Len(ruleStore) :
        ruleStore[j].isActive
        /\ (ruleStore[j].isGlobal \/ ruleStore[j].accountId = auth.account.id)}}

MatchingRules(action) ==
    {r \in ApplicableRules : r.action = action /\ evaluateRule(auth.txn, r)}

AppliedMatch(action) ==
    \E i \in 1..Len(auth.appliedRules) :
        auth.appliedRules[i].action = action /\ auth.appliedRules[i].matched

StepUpUnmet == AppliedMatch("step_up_auth") /\ ~AdditionalAuthProvided(request0)

Declined(reasonCode) == auth.response = [decision |-> "decline", reasonCode |-> reasonCode]
Approved == auth.response = [decision |-> "approve", reasonCode |-> ""]

C2_NoPendingAfterReturn ==
    AuthDone => \A i \in 1..Len(txStore) : txStore[i].status # "pending"

\* C3: in a call in which no collaborator throws, the answer for an active account is
\* the first applicable branch of: unmet step-up -> additional_auth_required; matched
\* decline -> rule_<id>; matched sweep, balance < amount and a sweep that reported
\* success and made the balance sufficient -> approve; balance < amount ->
\* insufficient_funds; otherwise approve. An approve rests on a balance read >= amount.
C3_SweepMadeSufficient ==
    /\ AppliedMatch("sweep")
    /\ auth.account.balance < auth.req.amount
    /\ auth.sweepResult = "true"
    /\ balance[auth.account.id] >= auth.req.amount

C3_DecisionPrecedence ==
    (AuthDone /\ AccountLoaded /\ auth.faults = {}) =>
        /\ IF StepUpUnmet THEN Declined("additional_auth_required")
           ELSE IF AppliedMatch("decline")
                THEN \E i \in 1..Len(auth.appliedRules) :
                        /\ auth.appliedRules[i].action = "decline"
                        /\ auth.appliedRules[i].matched
                        /\ Declined("rule_" \o auth.appliedRules[i].ruleId)
           ELSE IF C3_SweepMadeSufficient THEN Approved
           ELSE IF auth.account.balance < auth.req.amount
                THEN Declined("insufficient_funds")
           ELSE Approved
        /\ Approved =>
             \/ auth.account.balance >= auth.req.amount
             \/ (auth.sweepResult = "true" /\ balance[auth.account.id] >= auth.req.amount)

\* A matched decline and an unmet matched step-up together: the step-up wins.
C3_Witness ==
    /\ AuthDone /\ AccountLoaded /\ auth.faults = {}
    /\ StepUpUnmet /\ AppliedMatch("decline")
    /\ Declined("additional_auth_required")

\* C4: when an active decline rule matches and no step-up is pending, the reason code
\* is rule_<id> of a matching decline rule whose priority number is the smallest among
\* the matching decline rules, whatever the order the rules were loaded in.
C4_DeclineCitesSmallestPriority ==
    (AuthDone /\ AccountLoaded /\ auth.faults = {}
       /\ MatchingRules("decline") # {} /\ ~StepUpUnmet) =>
        \E r \in MatchingRules("decline") :
            /\ Declined("rule_" \o r.id)
            /\ \A q \in MatchingRules("decline") : r.priority <= q.priority

\* The account-bound decline rule is loaded first and the global one has the smaller
\* priority number: the global one is cited.
C4_Witness ==
    /\ AuthDone /\ AccountLoaded /\ auth.faults = {}
    /\ \E r, q \in MatchingRules("decline") :
          r.isGlobal /\ ~q.isGlobal /\ r.priority < q.priority /\ Declined("rule_" \o r.id)

\* C5: a rule with a card block matches a card transaction exactly when its other
\* conditions are satisfied and the card block is satisfied under its operator; and a
\* card request whose token is listed in card.highRiskTokens of an active global
\* decline rule with no other condition is declined with rule_<id>.
C5_OtherConditionsHold(r) ==
    \A k \in DOMAIN r.conditions \ {"card"} :
        evaluateCondition(k, r.conditions[k], prepareTransactionData(auth.txn))

C5_CardBlockMatches ==
    (AuthDone /\ AccountLoaded /\ auth.faults = {} /\ auth.txn.paymentMethod = "card") =>
        /\ \A r \in ApplicableRules : Has(r.conditions, "card") =>
             \E i \in 1..Len(auth.appliedRules) :
                /\ auth.appliedRules[i].ruleId = r.id
                /\ auth.appliedRules[i].matched =
                     (/\ C5_OtherConditionsHold(r)
                      /\ evaluateCardRule(r.conditions.card,
                                          prepareTransactionData(auth.txn)))
        /\ \A r \in ApplicableRules :
             (/\ r.isGlobal /\ r.action = "decline"
              /\ DOMAIN r.conditions = {"card"}
              /\ DOMAIN r.conditions.card = {"highRiskTokens"}
              /\ auth.txn.paymentToken \in r.conditions.card.highRiskTokens
              /\ \A q \in ApplicableRules : q.priority >= r.priority /\ q.action # "step_up_auth")
             => Declined("rule_" \o r.id)

\* C9: no persisted transaction row holds the request's card number or its CVV, in any
\* field, the metadata blob included.
RECURSIVE Holds(_, _)
Holds(v, secret) ==
    \/ v = secret
    \/ /\ v.tag = "o"
       /\ \E k \in DOMAIN v.f : Holds(v.f[k], secret)

Secrets(r) == {v \in {r.cardNumber, r.cvv} : Present(v)}

RowHolds(row, secret) ==
    \E v \in {row.paymentToken, row.cardLast4, row.cardFingerprint, row.metadata} :
        Holds(v, secret)

C9_NoCardDataPersisted ==
    \A i \in 1..Len(txStore) : \A secret \in Secrets(request0) : ~RowHolds(txStore[i], secret)

\* C10: an exception of an account-store, rule-store or transaction-store call made
\* during authorize is answered with decline system_error, never with a business
\* reason code or an approve.
StoreFaults == {"resolve", "create", "load", "enrichSave", "rules", "save", "reread"}

C10_StoreExceptionIsSystemError ==
    (AuthDone /\ auth.faults \cap StoreFaults # {}) => Declined("system_error")

(***************************************************************************)
(* Properties of transferFunds                                             *)
(***************************************************************************)
\* C6: transferFunds has no partial effect: a call that reported success debited the
\* source by exactly the amount and credited the destination by exactly the amount;
\* a call that ended otherwise left both balances as they were; a missing account or
\* a source short of funds never reports success.
C6_TransferNoPartialEffect ==
    LET x == xfer[1] IN
    /\ x.result = "true" =>
         /\ x.from \in AccountIds /\ x.to \in AccountIds
         /\ startBalance[x.from] >= x.amount
         /\ balance[x.from] = startBalance[x.from] - x.amount
         /\ balance[x.to] = startBalance[x.to] + x.amount
    /\ (x.pc = "done" /\ x.result # "true") => balance = startBalance

\* C7: under any interleaving of transfers of positive amounts over balances that
\* start non-negative, every account balance stays >= 0.
C7_BalancesNonNegative == \A a \in AccountIds : balance[a] >= 0

\* Two transfers drew on the same source, which covered either amount but not both:
\* one committed, the other was refused.
C7_Witness ==
    /\ xfer[1].from = xfer[2].from /\ xfer[1].from \in AccountIds
    /\ startBalance[xfer[1].from] >= xfer[1].amount
    /\ startBalance[xfer[1].from] >= xfer[2].amount
    /\ startBalance[xfer[1].from] < xfer[1].amount + xfer[2].amount
    /\ xfer[1].to # xfer[1].from /\ xfer[2].to # xfer[2].from
    /\ xfer[1].committed /\ xfer[2].pc = "done" /\ xfer[2].result = "false"

\* C8: concurrent transfers never reach a state in which each of two calls holds the
\* lock of one account and waits for the lock the other holds.
CircularWait(i, j) ==
    /\ i # j
    /\ xfer[i].pc = "lockDst" /\ xfer[j].pc = "lockDst"
    /\ xfer[i].to \in AccountIds /\ xfer[j].to \in AccountIds
    /\ lockOwner[xfer[i].to] = j /\ lockOwner[xfer[j].to] = i

C8_NoCircularWait == \A i, j \in XferIds : ~CircularWait(i, j)

(***************************************************************************)
(* Properties of the degraded paths of authorize                           *)
(***************************************************************************)
\* The call went past the enrichment step without enriched data: the timer won the
\* race or the provider rejected.
Degraded ==
    /\ AccountLoaded
    /\ auth.pc \in {"evaluate", "decide", "sweep", "catch", "done"}
    /\ auth.txn.enrichedData = Absent

\* The answer of the decision precedence over the rules as they match the call's
\* transaction (with the data it carries), the balance loaded with the account and
\* the outcome of the sweep.
RuleBasedAnswer ==
    IF MatchingRules("step_up_auth") # {} /\ ~AdditionalAuthProvided(request0)
    THEN Declined("additional_auth_required")
    ELSE IF MatchingRules("decline") # {}
    THEN \E r \in MatchingRules("decline") : Declined("rule_" \o r.id)
    ELSE IF /\ MatchingRules("sweep") # {}
            /\ auth.account.balance < auth.req.amount
            /\ auth.sweepResult = "true"
            /\ balance[auth.account.id] >= auth.req.amount
    THEN Approved
    ELSE IF auth.account.balance < auth.req.amount THEN Declined("insufficient_funds")
    ELSE Approved

\* What the same call could have answered had the enrichment arrived in time: the
\* branch taken on the rules evaluated over the enriched transaction.
C11_EnrichedBranch ==
    Decide(evaluateRules([auth.txn EXCEPT !.enrichedData = EnrichedData(auth.txn)],
                         LoadedRules(auth.account)),
           auth.req, auth.account)

C11_ApproveWithEnrichment ==
    \/ /\ C11_EnrichedBranch.kind = "funds"
       /\ auth.account.balance >= auth.req.amount
    \/ /\ C11_EnrichedBranch.kind = "sweep"
       /\ auth.account.sweepAccountId \in AccountIds \ {auth.account.id}
       /\ startBalance[auth.account.sweepAccountId] >= auth.req.amount
       /\ startBalance[auth.account.id] + auth.req.amount >= auth.req.amount

\* C11 (as stated): a call whose enrichment timed out or failed keeps enrichedData
\* unset, never answers system_error for that reason, and is never declined where the
\* same call with the enrichment in time would have been approved.
C11_EnrichmentNeverFlipsApprove ==
    (AuthDone /\ Degraded /\ auth.faults = {}) =>
        /\ auth.response.reasonCode # "system_error"
        /\ \A i \in 1..Len(txStore) : txStore[i].enrichedData = Absent
        /\ auth.response.decision = "decline" => ~C11_ApproveWithEnrichment

\* C11 (amended): a call whose enrichment timed out or failed keeps enrichedData unset
\* on the entity and on every saved row, never answers system_error for that reason,
\* and answers what the decision precedence gives over the rules evaluated on the raw
\* data.
C11_EnrichmentDegradesToRawDecision ==
    (AuthDone /\ Degraded /\ auth.faults = {}) =>
        /\ auth.response.reasonCode # "system_error"
        /\ \A i \in 1..Len(txStore) : txStore[i].enrichedData = Absent
        /\ RuleBasedAnswer

\* A degraded call over a request without country code: the sweep rule on the country
\* code does not match the raw data and the call is declined for insufficient funds.
C11_Witness ==
    /\ AuthDone /\ Degraded /\ auth.faults = {}
    /\ auth.req.countryCode = ""
    /\ \E r \in ApplicableRules : r.action = "sweep" /\ Has(r.conditions, "country_code_equals")
    /\ Declined("insufficient_funds")

\* The call started its sweep transfer.
SweepAttempted == xfer[SweepXfer].pc # "idle"

\* C12: a sweep transfer is attempted only on a matched sweep result with balance <
\* amount, sweep enabled and a sweep account configured, from that account into the
\* card account; a transfer that reports success in time with the re-read balance >=
\* amount is answered with approve; a transfer that returns false, loses the race or
\* throws is answered with decline insufficient_funds, never system_error.
C12_SweepFallback ==
    /\ SweepAttempted =>
         /\ AppliedMatch("sweep")
         /\ auth.account.balance < auth.req.amount
         /\ auth.account.isSweepEnabled /\ auth.account.sweepAccountId # ""
         /\ xfer[SweepXfer].from = auth.account.sweepAccountId
         /\ xfer[SweepXfer].to = auth.account.id
         /\ xfer[SweepXfer].amount = auth.req.amount
    /\ (AuthDone /\ SweepAttempted /\ auth.faults = {}) =>
         /\ auth.sweepResult \in {"true", "false", "throw", "timeout"}
         /\ (auth.sweepResult = "true" /\ balance[auth.account.id] >= auth.req.amount)
              => Approved
         /\ auth.sweepResult \in {"false", "throw", "timeout"}
              => Declined("insufficient_funds")

\* The transfer of a sweep rejected before the timer and the call was declined for
\* insufficient funds.
C12_Witness ==
    /\ AuthDone /\ SweepAttempted /\ auth.faults = {}
    /\ auth.sweepResult = "throw"
    /\ Declined("insufficient_funds")

\* The rule id of the first matched step-up result of the applied rules.
FirstStepUpId ==
    LET idx == {i \in 1..Len(auth.appliedRules) :
                    auth.appliedRules[i].action = "step_up_auth"
                    /\ auth.appliedRules[i].matched} IN
    auth.appliedRules[CHOOSE i \in idx : \A j \in idx : i <= j].ruleId

RecordsDeclineRule(t, ruleId) ==
    /\ t.status = "declined"
    /\ t.metadata.tag = "o"
    /\ Has(t.metadata.f, "declineRuleId")
    /\ t.metadata.f.declineRuleId = Str(ruleId)

\* C13: a matched step_up_auth result without additional-authentication evidence is
\* answered with decline additional_auth_required, and the declined transaction, as
\* saved, carries the rule id of the first such result; with the evidence present a
\* matched step_up_auth result does not decline: the answer is the one of the other
\* branches.
C13_StepUpAuth ==
    (AuthDone /\ AccountLoaded /\ auth.faults = {} /\ MatchingRules("step_up_auth") # {}) =>
        IF ~AdditionalAuthProvided(request0)
        THEN /\ Declined("additional_auth_required")
             /\ \E r \in MatchingRules("step_up_auth") :
                  /\ r.id = FirstStepUpId
                  /\ \A q \in MatchingRules("step_up_auth") : r.priority <= q.priority
             /\ RecordsDeclineRule(auth.txn, FirstStepUpId)
             /\ RecordsDeclineRule(txStore[auth.txn.rowId], FirstStepUpId)
        ELSE /\ auth.response.reasonCode # "additional_auth_required"
             /\ (MatchingRules("decline") = {} /\ auth.account.balance >= auth.req.amount)
                  => Approved

\* Two step-up rules matched a request without evidence: the decline names the one
\* with the smaller priority number.
C13_Witness ==
    /\ AuthDone /\ AccountLoaded /\ auth.faults = {}
    /\ ~AdditionalAuthProvided(request0)
    /\ \E r, q \in MatchingRules("step_up_auth") : r.priority < q.priority
    /\ Declined("additional_auth_required")
    /\ RecordsDeclineRule(txStore[auth.txn.rowId], FirstStepUpId)

(***************************************************************************)
(* Properties of evaluateRules                                             *)
(***************************************************************************)
Returned == engine.pc = "returned"

\* The input rule a result belongs to (the rule ids of a call are distinct).
RuleOf(result) == CHOOSE r \in {engine.rules[i] : i \in 1..Len(engine.rules)} :
                      r.id = result.ruleId

\* C14: evaluateRules returns exactly one result per input rule, and the results are in
\* ascending priority order whatever the order of the input list.
C14_OneResultPerRuleByPriority ==
    Returned =>
        /\ Len(engine.results) = Len(engine.rules)
        /\ \A i \in 1..Len(engine.rules) :
             Cardinality({j \in 1..Len(engine.results) :
                            /\ engine.results[j].ruleId = engine.rules[i].id
                            /\ engine.results[j].action = engine.rules[i].action}) = 1
        /\ \A i, j \in 1..Len(engine.results) :
             i < j => RuleOf(engine.results[i]).priority <= RuleOf(engine.results[j]).priority

\* Three rules handed over in descending priority order came back in ascending order.
C14_Witness ==
    /\ Returned /\ Len(engine.rules) = 3
    /\ engine.rules[1].priority > engine.rules[3].priority
    /\ engine.results[1].ruleId = engine.rules[3].id

\* C15: when the evaluation of a rule throws, evaluateRules still returns a result for
\* every rule: matched = false for the rule that threw, and for every other rule the
\* result its own evaluation gives.
C15_PerRuleErrorIsolation ==
    Returned =>
        \A i \in 1..Len(engine.rules) :
            LET rule == engine.rules[i] IN
            \E j \in 1..Len(engine.results) :
                /\ engine.results[j].ruleId = rule.id
                /\ engine.results[j].matched =
                     (IF evaluateRuleThrows(engine.transaction, rule) THEN FALSE
                      ELSE evaluateRule(engine.transaction, rule))

\* A rule whose evaluation throws was evaluated first; a rule evaluated after it
\* matched.
C15_Witness ==
    /\ Returned
    /\ \E i, j \in 1..Len(engine.results) :
         /\ i < j
         /\ evaluateRuleThrows(engine.transaction, RuleOf(engine.results[i]))
         /\ ~engine.results[i].matched
         /\ engine.results[j].matched

(***************************************************************************)
(* Properties of evaluateBehavioralPatterns                                *)
(***************************************************************************)
\* C16: when one of the anomaly checks throws, the other checks still run and the
\* call returns the result of every check that produced one, those computed before
\* the failing check included.
C16_DetectorFailSoft ==
    (Returned /\ engine.historyOk) =>
        \A i \in DOMAIN engine.outcomes :
            engine.outcomes[i] = "hit" =>
                \E j \in 1..Len(engine.results) : engine.results[j] = CheckResult(i)

\* The card's expiry lies strictly before the current month.
isExpired(t) ==
    \/ t.cardExpiryYear < CurrentYear
    \/ (t.cardExpiryYear = CurrentYear /\ t.cardExpiryMonth < CurrentMonth)

\* The applicable decline rules whose only condition is the given card block.
CardBlockDeclineRules(block) ==
    {r \in ApplicableRules : r.action = "decline" /\ r.conditions = [card |-> block]}

\* A card call that went through every store call and the enrichment without a fault.
CleanCardCall ==
    AuthDone /\ AccountLoaded /\ auth.faults = {} /\ auth.txn.paymentMethod = "card"

\* C17: with an active decline rule whose only condition is card.requireValidExpiry =
\* true, a card transaction whose expiry is strictly before the current month is
\* declined with rule_<ruleId>, and one whose expiry is the current month or later is
\* not declined by that rule.
C17_ExpiredCardDeclined ==
    CleanCardCall =>
        \A r \in CardBlockDeclineRules([requireValidExpiry |-> TRUE]) :
            IF isExpired(request0) THEN Declined("rule_" \o r.id)
            ELSE ~Declined("rule_" \o r.id)

\* C18: with an active decline rule {card: {brands: [visa, mastercard], operator:
\* 'not'}}, a card transaction whose brand is not in the list is declined with
\* rule_<ruleId>, and one whose brand is in the list is not declined by that rule.
C18_BrandOutsideListDeclined ==
    CleanCardCall =>
        \A r \in CardBlockDeclineRules([brands |-> {"visa", "mastercard"},
                                        operator |-> "not"]) :
            IF request0.cardBrand \notin r.conditions.card.brands
            THEN Declined("rule_" \o r.id)
            ELSE ~Declined("rule_" \o r.id)

\* authorize returned account_not_found from the identifier step: no row was created.
StoppedAtResolve == AuthDone /\ Declined("account_not_found") /\ txStore = <<>>

\* C19 as stated: the identifier is tried as a canonical UUID id, as a prefixed alias and
\* as a raw account number, falling back through each form, and authorize answers
\* account_not_found at this step only if none of these lookups finds an account.
C19_NotFoundOnlyIfNoFormResolves ==
    (StoppedAtResolve /\ "resolve" \notin auth.faults) =>
        /\ FindById(request0.accountId) = ""
        /\ FindByAccountNumber(request0.accountId) = ""

\* C19 amended: the shape of the identifier selects one lookup, by id for a canonical
\* UUID and by account number for every other string, with no fallback from one form to
\* another; authorize answers account_not_found at this step exactly when that one
\* lookup finds no account or throws, and otherwise goes on with the id it found.
C19_FormSelectsOneLookup ==
    LET id == request0.accountId
        found == IF IsUuid(id) THEN FindById(id) ELSE FindByAccountNumber(id) IN
    auth.pc # "validate" =>
        /\ StoppedAtResolve <=> ("resolve" \in auth.faults \/ found = "")
        /\ ~StoppedAtResolve => auth.req.accountId = found

C19_Witness ==
    /\ StoppedAtResolve /\ "resolve" \notin auth.faults
    /\ IsUuid(request0.accountId)
    /\ FindByAccountNumber(request0.accountId) # ""

(***************************************************************************)
(* Properties of secureSanitizeObject                                      *)
(***************************************************************************)
\* C20: sanitization is idempotent: for every nested structure x built from plain keys,
\* PCI-named keys, a pan key holding a Luhn-valid PAN or another value, and nested
\* objects, secureSanitizeObject(secureSanitizeObject(x)) equals
\* secureSanitizeObject(x).
C20_SanitizeIdempotent ==
    Returned => engine.twice = engine.once

(***************************************************************************)
(* Properties of isValidPan                                                *)
(***************************************************************************)
\* The contribution of the i-th digit: a digit at an odd distance from the right end
\* is doubled, and 9 is subtracted from a double above 9.
LuhnDigit(d, i) ==
    IF (Len(d) - i) % 2 = 1
    THEN (IF 2 * d[i] > 9 THEN 2 * d[i] - 9 ELSE 2 * d[i])
    ELSE d[i]

RECURSIVE LuhnChecksum(_, _)
LuhnChecksum(d, n) == IF n = 0 THEN 0 ELSE LuhnChecksum(d, n - 1) + LuhnDigit(d, n)

\* C21: isValidPan(s) is true if and only if s consists of 13 to 19 decimal digits and
\* its Luhn checksum is 0 modulo 10; 4242424242424242 is valid and 4242424242424241 is
\* invalid.
C21_IsValidPanIffLuhn ==
    Returned =>
        /\ engine.result <=>
              /\ engine.pan.tag = "d"
              /\ Len(engine.pan.d) \in 13..19
              /\ LuhnChecksum(engine.pan.d, Len(engine.pan.d)) % 10 = 0
        /\ engine.pan = ValidPan => engine.result
        /\ engine.pan = InvalidPan => ~engine.result

C21_Witness == Returned /\ engine.pan = ValidPan /\ engine.result

(***************************************************************************)
(* Properties of the anomaly checks inside authorize                       *)
(***************************************************************************)
\* A card call that went through the rule evaluation and the anomaly checks without a
\* fault.
CleanCardEvaluation == CleanCardCall /\ Present(auth.txn.cardFingerprint)

\* The earlier rows that carry the card of the call.
EarlierSameCard ==
    {i \in 1..Len(history) : history[i].cardFingerprint = auth.txn.cardFingerprint}

\* The earlier rows of the account of the call.
EarlierOfAccount == {i \in 1..Len(history) : history[i].accountId = auth.account.id}

AppliedResult(ruleId) ==
    \E i \in 1..Len(auth.appliedRules) :
        auth.appliedRules[i].ruleId = ruleId /\ auth.appliedRules[i].matched

\* C22: when authorize processes a card transaction with fingerprint f and three
\* earlier transactions with fingerprint f were created within the last 30 minutes, the
\* applied rules contain a matched velocity_card result; when every earlier transaction
\* with fingerprint f is older than 30 minutes and the account has no other transaction
\* within 60 minutes, no velocity result is produced.
C22_CardVelocity ==
    CleanCardEvaluation =>
        /\ Cardinality({i \in EarlierSameCard : history[i].age < 30}) >= 3
              => AppliedResult("velocity_card")
        /\ ((\A i \in EarlierSameCard : history[i].age > 30)
             /\ (\A i \in EarlierOfAccount : history[i].age > 60))
              => ~AppliedResult("velocity_card") /\ ~AppliedResult("velocity_account")

C22_Witness ==
    /\ CleanCardEvaluation
    /\ Cardinality({i \in EarlierSameCard : history[i].age < 30}) = 3
    /\ AppliedResult("velocity_card")

\* C23: when authorize processes a card transaction whose card fingerprint and payment
\* token occur in no earlier transaction of the account, and the account has at least
\* one earlier card transaction, the applied rules of the transaction contain a matched
\* behavioral_new_card result with action review.
C23_NewCardFlagged ==
    (/\ CleanCardEvaluation
     /\ \A i \in EarlierOfAccount :
           /\ history[i].cardFingerprint # auth.txn.cardFingerprint
           /\ history[i].paymentToken # auth.txn.paymentToken
     /\ \E i \in EarlierOfAccount : history[i].paymentMethod = "card")
    => \E i \in 1..Len(auth.appliedRules) :
           auth.appliedRules[i] = [ruleId |-> "behavioral_new_card", action |-> "review",
                                   matched |-> TRUE]

(***************************************************************************)
(* Properties of detectAmountAnomaly                                       *)
(***************************************************************************)
\* With n amounts of sum s: n * (amount - mean), and n^2 * variance taken from the
\* definition of the population variance, the mean of the squared deviations.
ScaledDeviation(amount, amounts) == Len(amounts) * amount - Sum(amounts)

ScaledVariance(amounts) ==
    Sum([i \in DOMAIN amounts |->
           (Len(amounts) * amounts[i] - Sum(amounts))
           * (Len(amounts) * amounts[i] - Sum(amounts))]) \div Len(amounts)

\* amount - mean > 3 * stdDev, amount - mean = 3 * stdDev
MoreThan3Sigma(amount, amounts) ==
    /\ ScaledDeviation(amount, amounts) > 0
    /\ ScaledDeviation(amount, amounts) * ScaledDeviation(amount, amounts)
         > 9 * ScaledVariance(amounts)

Exactly3Sigma(amount, amounts) ==
    /\ ScaledDeviation(amount, amounts) > 0
    /\ ScaledDeviation(amount, amounts) * ScaledDeviation(amount, amounts)
         = 9 * ScaledVariance(amounts)

C25_BalanceWrittenOnlyBySweep ==
    /\ []((AuthDone /\ ~SweepAttempted) => balance = startBalance)
    /\ [][balance' # balance =>
            /\ auth' = auth /\ txStore' = txStore
            /\ xfer' # xfer
            /\ \A a \in AccountIds :
                  balance'[a] # balance[a] => lockOwner[a] = SweepXfer]_vars

C25_Witness == AuthDone /\ ~SweepAttempted /\ Approved /\ request0.amount > 0

\* The card fields of a stored row are those the request supplied.
CardFieldsKept(row) ==
    /\ Present(request0.paymentToken) => row.paymentToken = request0.paymentToken
    /\ request0.paymentMethod # "" => row.paymentMethod = request0.paymentMethod
    /\ request0.cardBrand # "" => row.cardBrand = request0.cardBrand
    /\ Present(request0.cardLast4) => row.cardLast4 = request0.cardLast4
    /\ request0.cardExpiryMonth # 0 => row.cardExpiryMonth = request0.cardExpiryMonth
    /\ request0.cardExpiryYear # 0 => row.cardExpiryYear = request0.cardExpiryYear
    /\ Present(request0.cardFingerprint) => row.cardFingerprint = request0.cardFingerprint

\* C26: the transaction record saved by authorize carries the request's paymentToken,
\* paymentMethod, cardBrand, cardLast4, cardExpiryMonth, cardExpiryYear and
\* cardFingerprint with the values supplied in the request, in the pending record and
\* in the final record alike.
C26_CardFieldsPersistedUnchanged ==
    \A i \in 1..Len(txStore) : CardFieldsKept(txStore[i])

C26_Witness ==
    /\ AuthDone /\ Approved
    /\ Present(request0.cardNumber) /\ ~Present(request0.paymentToken)
    /\ Present(request0.cardLast4) /\ Present(request0.cardFingerprint)
    /\ \E i \in 1..Len(txStore) :
          /\ txStore[i].status = "approved"
          /\ txStore[i].cardLast4 = request0.cardLast4
          /\ txStore[i].cardFingerprint = request0.cardFingerprint

(***************************************************************************)
(* Properties of the rule loading and of the account gate                  *)
(***************************************************************************)
\* The rule ids of the applied rules that come from the rule engine.
AppliedRuleIds ==
    {auth.appliedRules[i].ruleId : i \in 1..Len(auth.appliedRules)}
    \ ({BehavioralRuleIds[i] : i \in DOMAIN BehavioralRuleIds} \cup {"velocity_account"})

\* C27: the rules evaluated for a transaction are exactly the active rules bound to the
\* transaction's account together with the active global rules; no rule with isActive
\* = false and no non-global rule bound to another account ever produces an entry in
\* the applied rules or influences the decision.
C27_OnlyApplicableRulesEvaluated ==
    (AuthDone /\ AccountLoaded /\ auth.faults = {}) =>
        /\ AppliedRuleIds = {r.id : r \in ApplicableRules}
        /\ \A id \in {ruleStore[i].id : i \in 1..Len(ruleStore)} :
              (Declined("rule_" \o id) \/ auth.txn.metadata = Obj([declineRuleId |-> Str(id)]))
                 => id \in {r.id : r \in ApplicableRules}
        /\ (/\ MatchingRules("decline") = {} /\ MatchingRules("step_up_auth") = {}
            /\ auth.account.balance >= request0.amount) => Approved

C27_Witness ==
    /\ AuthDone /\ AccountLoaded /\ auth.faults = {} /\ Approved
    /\ \E i \in 1..Len(ruleStore), j \in 1..Len(ruleStore) :
          /\ ~ruleStore[i].isActive /\ ruleStore[i].accountId = auth.account.id
          /\ ruleStore[i].action = "decline" /\ evaluateRule(auth.txn, ruleStore[i])
          /\ ruleStore[j] \in ApplicableRules

\* The account that the load of the call finds: missing, or of another status than
\* active.
GateClosed ==
    auth.accountGone \/ accounts[auth.req.accountId].status # "active"

\* C28: if the account loaded after the pending record was created is missing or its
\* status is not active, authorize declines with account_not_found or account_inactive
\* respectively, the pending record becomes declined with that reason, and no
\* enrichment, rule evaluation, anomaly detection or fund transfer is performed.
C28_AccountGate ==
    /\ []((AuthDone /\ auth.faults = {} /\ Len(txStore) > 0 /\ GateClosed) =>
            /\ Declined(IF auth.accountGone THEN "account_not_found"
                                            ELSE "account_inactive")
            /\ Len(txStore) = 1
            /\ txStore[1].status = "declined"
            /\ txStore[1].declineReason = auth.response.reasonCode
            /\ txStore[1].enrichedData = Absent /\ txStore[1].appliedRules = <<>>
            /\ ~SweepAttempted)
    /\ [][(auth.pc = "load" /\ auth' # auth /\ GateClosed') =>
            auth'.pc \in {"done", "catch"} /\ xfer' = xfer]_vars

C28_Witness ==
    /\ AuthDone /\ auth.faults = {} /\ Declined("account_inactive")
    /\ accounts[auth.req.accountId].isSweepEnabled
    /\ \E i \in 1..Len(ruleStore) :
          /\ ruleStore[i].action = "sweep" /\ ruleStore[i].accountId = auth.req.accountId
          /\ evaluateRule(auth.txn, ruleStore[i])
    /\ balance[auth.req.accountId] < request0.amount

JoeSCoffee == <<"J", "o", "e", " ", "s", " ", "C", "o", "f", "f", "e", "e">>

\* C29: on unenriched data, cleaning "SQ *Joe's Coffee 4821" and cleaning "Joe's Coffee"
\* give the same string, the blended confidence is at least 0.7 and the condition
\* merchant_name_equals "Joe's Coffee" is satisfied; the last two follow for any two
\* non-empty names that clean to the same string.
C29_FuzzyMerchantMatch ==
    (engine.pc = "returned" /\ ~engine.isEnriched) =>
        /\ (engine.merchantName = SquareJoesCoffee /\ engine.conditionValue = JoesCoffee) =>
              /\ engine.cleanActual = JoeSCoffee
              /\ engine.cleanExpected = JoeSCoffee
        /\ (/\ engine.merchantName # <<>> /\ engine.conditionValue # <<>>
            /\ engine.cleanActual = engine.cleanExpected) =>
              /\ engine.confidenceScore >= CONFIDENCE_THRESHOLD
              /\ engine.result

C29_Witness ==
    /\ engine.pc = "returned" /\ ~engine.isEnriched
    /\ engine.merchantName = SquareJoesCoffee /\ engine.conditionValue = JoesCoffee
    /\ engine.cleanActual = engine.cleanExpected
    /\ engine.confidenceScore = 100 /\ engine.result

\* The positions of transferFunds after the source balance was read and compared with
\* the amount, and those after the destination row was read as well.
SourceRead(i) == xfer[i].pc \in {"lockDst", "saveSrc", "saveDst", "commit"}
BothRead(i) == xfer[i].pc \in {"saveSrc", "saveDst", "commit"}

\* C30 as stated: a transfer that has read a balance or compared it with the amount
\* holds the write locks of both its accounts.
C30_BothLocksBeforeAnyRead ==
    \A i \in XferIds : SourceRead(i) =>
        {xfer[i].from, xfer[i].to} \cap AccountIds \subseteq HeldBy(i)

\* C30: each balance is read with the write lock of its own row held (the source is
\* read and compared with the amount before the destination is locked), the value read
\* is the committed one, and both locks are held before either balance is changed.
C30_EachRowReadUnderItsLock ==
    \A i \in XferIds :
        /\ SourceRead(i) => lockOwner[xfer[i].from] = i
        /\ xfer[i].pc = "lockDst" =>
              /\ xfer[i].srcBal = balance[xfer[i].from]
              /\ xfer[i].srcBal >= xfer[i].amount
        /\ BothRead(i) => lockOwner[xfer[i].to] = i
        /\ xfer[i].pc = "saveSrc" =>
              /\ xfer[i].srcBal = balance[xfer[i].from]
              /\ xfer[i].dstBal = balance[xfer[i].to]

C30_Witness ==
    \E i \in XferIds :
        /\ xfer[i].pc = "saveSrc" /\ xfer[i].from # xfer[i].to
        /\ HeldBy(i) = {xfer[i].from, xfer[i].to}
        /\ \E j \in XferIds \ {i} : xfer[j].pc = "lockSrc" /\ xfer[j].from \in HeldBy(i)

\* The sub-conditions a card block lists, those of them the transaction carries the
\* field for, and whether one holds of the transaction.
Listed(c) == DOMAIN c \cap CardBlockKeys
Operator(c) == IF "operator" \in DOMAIN c THEN c.operator ELSE "or"
StrictlyBefore(y1, m1, y2, m2) == y1 * 12 + m1 < y2 * 12 + m2
HasExpiry(d) == d.cardExpiryMonth # 0 /\ d.cardExpiryYear # 0

FieldPresent(k, d) ==
    CASE k = "brands" -> d.cardBrand # ""
      [] k = "highRiskTokens" -> d.paymentToken # Absent
      [] k = "requireValidExpiry" -> HasExpiry(d)
      [] k = "fingerprintFrequency" -> d.cardFingerprint # Absent

Satisfied(k, c, d) ==
    /\ FieldPresent(k, d)
    /\ CASE k = "brands" -> d.cardBrand \in c.brands
         [] k = "highRiskTokens" -> d.paymentToken \in c.highRiskTokens
         [] k = "requireValidExpiry" ->
                ~StrictlyBefore(d.cardExpiryYear, d.cardExpiryMonth, 2025, 6)
         [] k = "fingerprintFrequency" -> TRUE

CardReturned == engine.pc = "returned"

\* C31 as stated: under 'or' (the default) evaluateCardRule reports a match iff at
\* least one listed sub-condition is satisfied, under 'and' iff every listed
\* sub-condition is satisfied.
C31_OperatorOverListed ==
    CardReturned =>
        LET c == engine.cardConditions
            d == engine.txData
        IN /\ Operator(c) = "or" => (engine.result <=> \E k \in Listed(c) : Satisfied(k, c, d))
           /\ (Operator(c) = "and" /\ Listed(c) # {}) =>
                 (engine.result <=> \A k \in Listed(c) : Satisfied(k, c, d))

\* C31: a listed sub-condition is evaluated only when the transaction carries its field.
\* Under 'and' the block matches iff at least one sub-condition is evaluated and every
\* evaluated one is satisfied; under any other operator iff one is satisfied.
C31_OperatorOverEvaluated ==
    CardReturned =>
        LET c == engine.cardConditions
            d == engine.txData
            evaluated == {k \in Listed(c) : FieldPresent(k, d)}
        IN IF Operator(c) = "and"
           THEN engine.result <=> (evaluated # {} /\ \A k \in evaluated : Satisfied(k, c, d))
           ELSE engine.result <=> \E k \in Listed(c) : Satisfied(k, c, d)

C31_Witness ==
    /\ CardReturned /\ Operator(engine.cardConditions) = "and" /\ engine.result
    /\ Listed(engine.cardConditions) = {"brands", "highRiskTokens"}
    /\ engine.txData.cardBrand = "" /\ engine.txData.paymentToken = RiskyToken

\* C32: a card is treated as expired iff (expiryYear, expiryMonth) lies strictly before
\* the current (year, month): in June 2025, 05/2025 is expired, 06/2025 and 12/2025 are
\* valid.  A block that lists only requireValidExpiry reports the validity.
C32_ExpiredIffStrictlyBefore ==
    (/\ CardReturned /\ Listed(engine.cardConditions) = {"requireValidExpiry"}
     /\ HasExpiry(engine.txData)) =>
        LET y == engine.txData.cardExpiryYear
            m == engine.txData.cardExpiryMonth
        IN /\ engine.result <=> ~StrictlyBefore(y, m, 2025, 6)
           /\ (y = 2025 /\ m = 5) => ~engine.result
           /\ (y = 2025 /\ m \in {6, 12}) => engine.result

C32_Witness ==
    /\ CardReturned /\ Listed(engine.cardConditions) = {"requireValidExpiry"}
    /\ engine.txData.cardExpiryYear = 2025 /\ engine.txData.cardExpiryMonth = 6
    /\ engine.result

C34_InsufficientFundsMovesNoMoney ==
    (AuthDone /\ Declined("insufficient_funds")) =>
        /\ ~xfer[SweepXfer].committed
        /\ balance = startBalance

\* C35: when the anomaly checks run, the recent-history list they read holds the earlier
\* rows of the account only, and the card and account velocity counts count earlier
\* rows only: the pending row of the call itself is in neither.
C35_BaselineExcludesPending ==
    auth.pc = "evaluate" =>
        /\ getAccountTransactionHistory(auth.account.id) =
              SelectSeq(history, LAMBDA r : r.accountId = auth.account.id)
        /\ Count(TransactionRows, LAMBDA tx : /\ tx.cardFingerprint = auth.txn.cardFingerprint
                                              /\ tx.age < CardVelocityWindow)
              = Cardinality({i \in EarlierSameCard : history[i].age < CardVelocityWindow})
        /\ Count(TransactionRows, LAMBDA tx : /\ tx.accountId = auth.txn.accountId
                                              /\ tx.age < AccountVelocityWindow)
              = Cardinality({i \in EarlierOfAccount : history[i].age < AccountVelocityWindow})

\* C36: a transfer from an existing account to itself, with a balance that covers the
\* amount, leaves the balance of the account unchanged whatever it returns.
C36_SelfTransferNeutral ==
    \A i \in XferIds :
        (/\ xfer[i].from = xfer[i].to /\ xfer[i].from \in AccountIds
         /\ startBalance[xfer[i].from] >= xfer[i].amount)
        => balance[xfer[i].from] = startBalance[xfer[i].from]

\* The call saved its pending record, and that record as the store holds it.
RecordCreated == auth.txn.rowId # 0
CallRecord == txStore[auth.txn.rowId]

\* C37: for a call that created a pending record, the response is approve only if that
\* record is stored with status approved, and a decline with a reason other than
\* system_error is returned only if the record is stored with status declined and the
\* same decline reason.
C37_ResponseAgreesWithRecord ==
    (AuthDone /\ RecordCreated) =>
        /\ auth.response.decision = "approve" => CallRecord.status = "approved"
        /\ (auth.response.decision = "decline" /\ auth.response.reasonCode # "system_error") =>
              /\ CallRecord.status = "declined"
              /\ CallRecord.declineReason = auth.response.reasonCode

C37_Witness ==
    /\ AuthDone /\ RecordCreated /\ auth.faults # {}
    /\ Approved /\ CallRecord.status = "approved"
    /\ xfer[SweepXfer].committed

\* C38: the applied rules of a transaction hold at most one result per rule id, also
\* for an active rule that is bound to the account and flagged global.
C38_OneResultPerRule ==
    \A i, j \in 1..Len(auth.appliedRules) :
        auth.appliedRules[i].ruleId = auth.appliedRules[j].ruleId => i = j

\* The matched results with action step_up_auth, decline or sweep, in their order.
DecisionResults(applied) ==
    SelectSeq(applied, LAMBDA x : x.matched /\ x.action \in {"step_up_auth", "decline", "sweep"})

\* The branch taken on the applied rules with every other result removed.
ReducedBranch == Decide(DecisionResults(auth.appliedRules), auth.req, auth.account)

\* C39: two runs of authorize that differ only in matched results with action approve,
\* review or flag (every result of the anomaly detector among them) give the same
\* decision and reasonCode: the step that decides does what it would do on the matched
\* step_up_auth, decline and sweep results alone, and the sweep step reads no result.
C39_DecisionIgnoresOtherResults ==
    /\ [][(auth.pc = "decide" /\ auth' # auth) =>
            CASE ReducedBranch.kind = "decline" ->
                   /\ auth'.pc \in {"done", "catch"}
                   /\ auth'.pc = "done" =>
                         auth'.response = [decision |-> "decline",
                                           reasonCode |-> ReducedBranch.reasonCode]
              [] ReducedBranch.kind = "sweep" -> auth'.pc = "sweep"
              [] OTHER ->
                   /\ auth'.pc \in {"done", "catch"}
                   /\ auth'.pc = "done" =>
                         auth'.response =
                            IF auth.account.balance < auth.req.amount
                            THEN [decision |-> "decline", reasonCode |-> "insufficient_funds"]
                            ELSE [decision |-> "approve", reasonCode |-> ""]]_vars
    /\ [][(auth.pc = "sweep" /\ auth'.pc = "done") =>
            auth'.response =
               IF \/ (auth'.sweepResult = "true" /\ "reread" \notin auth'.faults
                         /\ balance[auth.account.id] >= auth.req.amount)
                  \/ auth.account.balance >= auth.req.amount
               THEN [decision |-> "approve", reasonCode |-> ""]
               ELSE [decision |-> "decline", reasonCode |-> "insufficient_funds"]]_vars

C39_Witness ==
    /\ AuthDone /\ auth.response.decision = "decline"
    /\ auth.response.reasonCode \notin {"system_error", "insufficient_funds"}
    /\ \E i, j \in 1..Len(auth.appliedRules) :
          /\ i < j
          /\ auth.appliedRules[i].matched /\ auth.appliedRules[i].action = "review"
          /\ auth.appliedRules[j].matched /\ auth.appliedRules[j].action = "decline"

====
